---------------------------- MODULE Spec2Model ----------------------------
(***************************************************************************)
(* The subnet calculator of geezyx/subnet-calculator: the two-index        *)
(* Calculator (IPv4Pools, AllocatedIPv4Prefixes, IPv6Pools,                *)
(* AllocatedIPv6Prefixes), its candidate producer goroutine                *)
(* (subnetFactory.run4 / run6) and the consumer loop of                    *)
(* NextAvailableIPv4Subnet / NextAvailableIPv6Subnet.                      *)
(*                                                                         *)
(* Addresses are big-endian octet sequences (4 octets for IPv4, 16 for     *)
(* IPv6); a prefix is a record [addr, bits], bits = -1 being netip's       *)
(* invalid prefix.  A radix tree is the set of the prefixes it stores, at  *)
(* most one per 16-byte key, walked in ascending key order.                *)
(***************************************************************************)
EXTENDS Integers, Sequences, FiniteSets, TLC

VARIABLES
    IPv4Pools,              \* Calculator.IPv4Pools
    AllocatedIPv4Prefixes,  \* Calculator.AllocatedIPv4Prefixes
    IPv6Pools,              \* Calculator.IPv6Pools
    AllocatedIPv6Prefixes,  \* Calculator.AllocatedIPv6Prefixes
    sfs,                    \* the subnetFactory of every call so far, newest last
    call,                   \* the NextAvailable call in progress (the mutex holder);
                            \* tried is history: the candidates it has received
    crashed,                \* a goroutine panicked: the process is gone
    last,                   \* history: the most recent finished operation
    returned,               \* history: prefixes returned since the last other operation
    tested,                 \* history: the last candidate given to prefixAvailable
    nOps,                   \* history: number of pool / allocation operations so far
    added,                  \* history: the stored pools, oldest insertion first
    released,               \* history: the returned prefix that was released last
    calc,                   \* the single-mode Calculator: Pools, AllocatedPrefixes, Mode
    state                   \* the Terraform state of the resource a handler works on

engine == <<IPv4Pools, AllocatedIPv4Prefixes, IPv6Pools, AllocatedIPv6Prefixes>>
vars == <<IPv4Pools, AllocatedIPv4Prefixes, IPv6Pools, AllocatedIPv6Prefixes,
          sfs, call, crashed, last, returned, tested, nOps, added, released,
          calc, state>>
host == <<calc, state>>

(***************************************************************************)
(* Bounds of the model.                                                    *)
(***************************************************************************)
MaxOps == 2      \* pool / allocation operations in one behaviour
MaxCalls == 2    \* NextAvailable calls in one behaviour
MaxEmit == 5     \* length after which the history of sent candidates saturates

(***************************************************************************)
(* net/netip as the calculator uses it.                                    *)
(***************************************************************************)
Pfx(a, b) == [addr |-> a, bits |-> b]

BitLen(a) == 8 * Len(a)

Is4(prefix) == Len(prefix.addr) = 4

Is6(prefix) == Len(prefix.addr) = 16

\* netip.PrefixFrom: no masking of host bits; bits outside 0..BitLen give the
\* invalid prefix, whose Bits() is -1.
PrefixFrom(a, b) == Pfx(a, IF b >= 0 /\ b <= BitLen(a) THEN b ELSE -1)

IsValid(prefix) == prefix.bits >= 0

\* number of leading bits of octet i (1-based) that a mask of b bits covers
OctetBits(b, i) ==
    IF b - 8 * (i - 1) <= 0 THEN 0
    ELSE IF b - 8 * (i - 1) >= 8 THEN 8 ELSE b - 8 * (i - 1)

\* netip.Prefix.Contains(ip): the top Bits() bits of ip equal those of the
\* prefix's address; false for an invalid prefix or another family.
Contains(prefix, ip) ==
    /\ IsValid(prefix)
    /\ Len(prefix.addr) = Len(ip)
    /\ \A i \in 1..Len(ip) :
          (ip[i] \div 2^(8 - OctetBits(prefix.bits, i)))
             = (prefix.addr[i] \div 2^(8 - OctetBits(prefix.bits, i)))

\* the address left-padded with zero bytes to sixteen bytes
As16_Padded(a) == [k \in 1..(16 - Len(a)) |-> 0] \o a

\* netip.Addr.As16: an IPv4 address becomes the IPv4-mapped IPv6 address,
\* the zero Addr sixteen zero bytes.
As16(a) ==
    IF Len(a) = 4
    THEN <<0, 0, 0, 0, 0, 0, 0, 0, 0, 0, 255, 255>> \o a
    ELSE IF Len(a) = 0
    THEN <<0, 0, 0, 0, 0, 0, 0, 0, 0, 0, 0, 0, 0, 0, 0, 0>>
    ELSE a

(***************************************************************************)
(* go-immutable-radix as the calculator uses it.                           *)
(***************************************************************************)
Key(prefix) == As16(prefix.addr)

RECURSIVE LexLess(_, _)
LexLess(k1, k2) ==
    IF k1 = <<>> \/ k2 = <<>> THEN k1 = <<>> /\ k2 # <<>>
    ELSE IF Head(k1) # Head(k2) THEN Head(k1) < Head(k2)
    ELSE LexLess(Tail(k1), Tail(k2))

\* Insert that removes the entry when the key is already stored
Insert_Toggle(tree, prefix) ==
    IF \E q \in tree : Key(q) = Key(prefix)
    THEN {q \in tree : Key(q) # Key(prefix)}
    ELSE tree \cup {prefix}

\* Tree.Insert(key, value): a value stored under the same key is replaced.
Insert(tree, prefix) == {q \in tree : Key(q) # Key(prefix)} \cup {prefix}

\* Delete that removes nothing
Delete_Nothing(tree, prefix) == tree

\* Tree.Delete(key)
Delete(tree, prefix) == {q \in tree : Key(q) # Key(prefix)}

\* Root().Walk: the entries in ascending key order.
RECURSIVE Walk(_)
Walk(tree) ==
    IF tree = {} THEN <<>>
    ELSE LET first == CHOOSE q \in tree :
                         \A r \in tree \ {q} : LexLess(Key(q), Key(r))
         IN <<first>> \o Walk(tree \ {first})

(***************************************************************************)
(* increment4 / increment16.                                               *)
(***************************************************************************)
\* Go's integer division truncates toward zero.
TruncDiv(a, b) == IF a >= 0 THEN a \div b ELSE -((-a) \div b)

Zeros(n) == [i \in 1..n |-> 0]

\* the carry loop: octet is the 0-based index the carry came out of
RECURSIVE propagate(_, _, _)
propagate(a, octet, carry) ==
    IF carry = 0 THEN a
    ELSE IF octet - 1 < 0 THEN Zeros(Len(a))
    ELSE LET sum16 == a[octet] + carry
         IN propagate([a EXCEPT ![octet] = sum16 % 256], octet - 1, sum16 \div 256)

\* incrementN stepping by twice the value of the bit
incrementN_Double(a, bit) ==
    LET octet == TruncDiv(bit - 1, 8)
        shift == (bit - 1) - (octet * 8)
    IN IF shift < 0 \/ octet < 0 \/ octet >= Len(a)
       THEN [panic |-> TRUE, a |-> a]
       ELSE LET val == 2 * (128 \div 2^shift)
                sum16 == a[octet + 1] + val
            IN [panic |-> FALSE,
                a |-> propagate([a EXCEPT ![octet + 1] = sum16 % 256],
                                octet, sum16 \div 256)]

\* [panic, a]: panic when the shift count is negative or the index is out of
\* range, else the incremented array.
incrementN(a, bit) ==
    LET octet == TruncDiv(bit - 1, 8)
        shift == (bit - 1) - (octet * 8)
    IN IF shift < 0 \/ octet < 0 \/ octet >= Len(a)
       THEN [panic |-> TRUE, a |-> a]
       ELSE LET val == 128 \div 2^shift
                sum16 == a[octet + 1] + val
            IN [panic |-> FALSE,
                a |-> propagate([a EXCEPT ![octet + 1] = sum16 % 256],
                                octet, sum16 \div 256)]

increment4(a, bit) == incrementN(a, bit)

increment16(a, bit) == incrementN(a, bit)


(***************************************************************************)
(* Inputs: the prefixes and mask lengths the operations are called with.   *)
(***************************************************************************)
V4(a, b, c, d, bits) == Pfx(<<a, b, c, d>>, bits)

\* fd18:fad4:bce5:44xx::/bits
V6(x, bits) == Pfx(<<253, 24, 250, 212, 188, 229, 68, x, 0, 0, 0, 0, 0, 0, 0, 0>>, bits)

PoolInputs ==
    { V4(0, 0, 0, 0, 0),        \* the whole IPv4 space
      V4(64, 0, 0, 0, 2),       \* a canonical pool
      V6(252, 62) }             \* fd18:fad4:bce5:44fc::/62

ClaimInputs ==
    { V4(0, 0, 0, 0, 0),
      V4(64, 0, 0, 0, 2),
      V4(64, 0, 0, 0, 3),
      V6(252, 64) }

MaskInputs4 == {0, 1, 3, 33}

MaskInputs6 == {64}

\* ip_family: "ipv4" (the default) or "ipv6"
FamilyInputs == {"ipv4", "ipv6"}

MaskInputs(ipFamily) == IF ipFamily = "ipv6" THEN MaskInputs6 ELSE MaskInputs4

NoPrefix == Pfx(<<>>, -1)

NoCall == [op |-> "none"]

NoTest == [cand |-> NoPrefix, avail |-> FALSE, allocated |-> {}]

\* the single-mode NewCalculator: two empty trees, mode not yet discovered
NewModeCalculator == [Pools |-> {}, AllocatedPrefixes |-> {}, Mode |-> "ModeUnknown"]

\* no resource in the Terraform state
NoResource == [exists |-> FALSE]

(***************************************************************************)
(* Calculator: construction and the index operations.                      *)
(***************************************************************************)
\* NewCalculator: four empty trees.
Init ==
    /\ IPv4Pools = {}
    /\ AllocatedIPv4Prefixes = {}
    /\ IPv6Pools = {}
    /\ AllocatedIPv6Prefixes = {}
    /\ sfs = <<>>
    /\ call = [active |-> FALSE, fam |-> 4, m |-> 0, pc |-> "range", tried |-> <<>>]
    /\ crashed = FALSE
    /\ last = NoCall
    /\ returned = <<>>
    /\ tested = NoTest
    /\ nOps = 0
    /\ added = <<>>
    /\ released = NoPrefix
    /\ calc = NewModeCalculator
    /\ state = NoResource

\* The calculator is used behind syncCalculator's mutex: an index operation
\* runs only while no NextAvailable call holds it.
CanOperate == ~crashed /\ ~call.active /\ nOps < MaxOps

\* the insertion history without the pool stored under prefix's key
Range(s) == {s[k] : k \in 1..Len(s)}

Forget(order, prefix) == SelectSeq(order, LAMBDA q : Key(q) # Key(prefix))

Operated(name, prefix) ==
    /\ nOps' = nOps + 1
    /\ last' = [op |-> name, prefix |-> prefix, before |-> engine]
    /\ released' = IF name = "DeleteAllocatedPrefix" /\ prefix \in Range(returned)
                   THEN prefix
                   ELSE NoPrefix
    /\ returned' = <<>>
    /\ tested' = NoTest
    /\ UNCHANGED <<sfs, call, crashed, host>>

AddPool(prefix) ==
    /\ CanOperate
    /\ IF Is4(prefix)
       THEN /\ IPv4Pools' = Insert(IPv4Pools, prefix)
            /\ UNCHANGED IPv6Pools
       ELSE /\ IPv6Pools' = Insert(IPv6Pools, prefix)
            /\ UNCHANGED IPv4Pools
    /\ UNCHANGED <<AllocatedIPv4Prefixes, AllocatedIPv6Prefixes>>
    /\ added' = IF \E k \in 1..Len(added) : added[k] = prefix
                THEN added
                ELSE Append(Forget(added, prefix), prefix)
    /\ Operated("AddPool", prefix)

DeletePool(prefix) ==
    /\ CanOperate
    /\ IF Is4(prefix)
       THEN /\ IPv4Pools' = Delete(IPv4Pools, prefix)
            /\ UNCHANGED IPv6Pools
       ELSE /\ IPv6Pools' = Delete(IPv6Pools, prefix)
            /\ UNCHANGED IPv4Pools
    /\ UNCHANGED <<AllocatedIPv4Prefixes, AllocatedIPv6Prefixes>>
    /\ added' = Forget(added, prefix)
    /\ Operated("DeletePool", prefix)

\* AddAllocatedPrefix with a check the code does not have: a prefix outside
\* every pool, or overlapping a stored allocation, is rejected.
AddAllocatedPrefix_Checked(prefix) ==
    /\ CanOperate
    /\ LET pools == IF Is4(prefix) THEN IPv4Pools ELSE IPv6Pools
           allocs == IF Is4(prefix) THEN AllocatedIPv4Prefixes
                                    ELSE AllocatedIPv6Prefixes
           accepted ==
               /\ \E P \in pools : P.bits <= prefix.bits /\ Contains(P, prefix.addr)
               /\ \A A \in allocs :
                     ~Contains(A, prefix.addr) /\ ~Contains(prefix, A.addr)
       IN IF accepted /\ Is4(prefix)
          THEN /\ AllocatedIPv4Prefixes' = Insert(AllocatedIPv4Prefixes, prefix)
               /\ UNCHANGED AllocatedIPv6Prefixes
          ELSE IF accepted
          THEN /\ AllocatedIPv6Prefixes' = Insert(AllocatedIPv6Prefixes, prefix)
               /\ UNCHANGED AllocatedIPv4Prefixes
          ELSE UNCHANGED <<AllocatedIPv4Prefixes, AllocatedIPv6Prefixes>>
    /\ UNCHANGED <<IPv4Pools, IPv6Pools, added>>
    /\ Operated("AddAllocatedPrefix", prefix)

AddAllocatedPrefix(prefix) ==
    /\ CanOperate
    /\ IF Is4(prefix)
       THEN /\ AllocatedIPv4Prefixes' = Insert(AllocatedIPv4Prefixes, prefix)
            /\ UNCHANGED AllocatedIPv6Prefixes
       ELSE /\ AllocatedIPv6Prefixes' = Insert(AllocatedIPv6Prefixes, prefix)
            /\ UNCHANGED AllocatedIPv4Prefixes
    /\ UNCHANGED <<IPv4Pools, IPv6Pools, added>>
    /\ Operated("AddAllocatedPrefix", prefix)

DeleteAllocatedPrefix(prefix) ==
    /\ CanOperate
    /\ IF Is4(prefix)
       THEN /\ AllocatedIPv4Prefixes' = Delete(AllocatedIPv4Prefixes, prefix)
            /\ UNCHANGED AllocatedIPv6Prefixes
       ELSE /\ AllocatedIPv6Prefixes' = Delete(AllocatedIPv6Prefixes, prefix)
            /\ UNCHANGED AllocatedIPv4Prefixes
    /\ UNCHANGED <<IPv4Pools, IPv6Pools, added>>
    /\ Operated("DeleteAllocatedPrefix", prefix)

\* the early-stopping walk of PrefixInPools over the entries in key order
RECURSIVE walkInPools(_, _)
walkInPools(entries, prefix) ==
    IF entries = <<>> THEN FALSE
    ELSE IF Contains(Head(entries), prefix.addr) THEN TRUE
    ELSE walkInPools(Tail(entries), prefix)

\* PrefixInPools looking in the index of the other family
PrefixInPools_OtherFamily(prefix) ==
    LET pool == IF Is6(prefix) THEN IPv4Pools ELSE IPv6Pools
    IN walkInPools(Walk(pool), prefix)

PrefixInPools(prefix) ==
    LET pool == IF Is6(prefix) THEN IPv6Pools ELSE IPv4Pools
    IN walkInPools(Walk(pool), prefix)

\* A PrefixInPools call, as SubnetResource.Read makes it: the indexes are
\* left alone and the answer is recorded.
AskPrefixInPools(prefix) ==
    /\ CanOperate
    /\ nOps' = nOps + 1
    /\ last' = [op |-> "PrefixInPools", prefix |-> prefix,
                result |-> PrefixInPools(prefix), before |-> engine]
    /\ UNCHANGED <<engine, sfs, call, crashed, returned, tested, added, released, host>>

\* the early-stopping walk of prefixAvailable over the entries in key order
RECURSIVE walkAvailable(_, _)
walkAvailable(entries, prefix) ==
    IF entries = <<>> THEN TRUE
    ELSE IF Contains(Head(entries), prefix.addr) THEN FALSE
    ELSE IF Contains(prefix, Head(entries).addr) THEN FALSE
    ELSE walkAvailable(Tail(entries), prefix)

\* prefixAvailable without its first test, n.Contains(prefix.Addr())
prefixAvailable_NoInside(prefix) ==
    LET allocated == IF Is6(prefix) THEN AllocatedIPv6Prefixes
                     ELSE AllocatedIPv4Prefixes
    IN \A n \in allocated : ~Contains(prefix, n.addr)

\* prefixAvailable without its second test, prefix.Contains(n.Addr())
prefixAvailable_NoOutside(prefix) ==
    LET allocated == IF Is6(prefix) THEN AllocatedIPv6Prefixes
                     ELSE AllocatedIPv4Prefixes
    IN \A n \in allocated : ~Contains(n, prefix.addr)

\* prefixAvailable without any test
prefixAvailable_Always(prefix) == IsValid(prefix) \/ ~IsValid(prefix)

prefixAvailable(prefix) ==
    LET allocated == IF Is6(prefix) THEN AllocatedIPv6Prefixes
                     ELSE AllocatedIPv4Prefixes
    IN walkAvailable(Walk(allocated), prefix)

(***************************************************************************)
(* subnetFactory: the producer goroutine of one call.                      *)
(***************************************************************************)
Reverse(q) == [k \in 1..Len(q) |-> q[Len(q) + 1 - k]]

\* a factory whose walk visits the pools in descending key order
newSubnetFactory_Reversed(pools, fam, prefixLength) ==
    [fam |-> fam, prefixLength |-> prefixLength,
     todo |-> Reverse(Walk(pools)),
     n |-> NoPrefix,
     addr |-> <<>>,
     cand |-> NoPrefix,
     pc |-> "walk",
     done |-> FALSE,
     closed |-> FALSE,
     sent |-> <<>>]

newSubnetFactory(pools, fam, prefixLength) ==
    [fam |-> fam, prefixLength |-> prefixLength,
     todo |-> Walk(pools),   \* entries the walk has still to visit
     n |-> NoPrefix,         \* the entry whose inner loop ran last
     addr |-> <<>>,
     cand |-> NoPrefix,      \* the value of the pending channel send
     pc |-> "walk",
     done |-> FALSE,         \* doneChan is closed
     closed |-> FALSE,       \* subnetsChan is closed
     sent |-> <<>>]          \* history: candidates of n handed to the consumer

newSubnetV4Factory(prefixLength) == newSubnetFactory(IPv4Pools, 4, prefixLength)

newSubnetV6Factory(prefixLength) == newSubnetFactory(IPv6Pools, 6, prefixLength)

\* the consumer reading the channel of the first factory ever made
Current_First == IF sfs = <<>> THEN 0 ELSE 1

\* the factory of the call in progress
Current == Len(sfs)

ProducerFrame ==
    UNCHANGED <<engine, call, last, returned, tested, nOps, added, released, host>>

\* The walk callback is entered for the next entry: the select on doneChan,
\* then the first candidate of the entry.
runVisit(i) ==
    /\ ~crashed
    /\ sfs[i].pc = "walk"
    /\ IF sfs[i].todo = <<>> \/ sfs[i].done
       THEN sfs' = [sfs EXCEPT ![i].pc = "close"]
       ELSE LET n == Head(sfs[i].todo)
            IN sfs' = [sfs EXCEPT ![i].n = n,
                                  ![i].addr = n.addr,
                                  ![i].cand = PrefixFrom(n.addr, sfs[i].prefixLength),
                                  ![i].sent = <<>>,
                                  ![i].pc = "send"]
    /\ UNCHANGED crashed
    /\ ProducerFrame

\* One turn of the inner loop after a send went through.
runStep(i) ==
    /\ ~crashed
    /\ sfs[i].pc = "step"
    /\ LET sf == sfs[i]
           r == IF sf.fam = 4 THEN increment4(sf.addr, sf.prefixLength)
                ELSE increment16(sf.addr, sf.prefixLength)
           newPrefix == PrefixFrom(r.a, sf.prefixLength)
       IN IF r.panic
          THEN /\ crashed' = TRUE
               /\ sfs' = [sfs EXCEPT ![i].pc = "panicked"]
          ELSE /\ UNCHANGED crashed
               /\ IF ~Contains(sf.n, newPrefix.addr)
                  THEN sfs' = [sfs EXCEPT ![i].addr = r.a,
                                          ![i].todo = Tail(sf.todo),
                                          ![i].pc = "walk"]
                  ELSE sfs' = [sfs EXCEPT ![i].addr = r.a,
                                          ![i].cand = newPrefix,
                                          ![i].pc = "send"]
    /\ ProducerFrame

\* close(sf.subnetsChan) after the walk
runClose(i) ==
    /\ ~crashed
    /\ sfs[i].pc = "close"
    /\ sfs' = [sfs EXCEPT ![i].closed = TRUE, ![i].pc = "exited"]
    /\ UNCHANGED crashed
    /\ ProducerFrame

run4(i) == sfs[i].fam = 4 /\ (runVisit(i) \/ runStep(i) \/ runClose(i))

run6(i) == sfs[i].fam = 6 /\ (runVisit(i) \/ runStep(i) \/ runClose(i))

(***************************************************************************)
(* NextAvailableIPv4Subnet / NextAvailableIPv6Subnet: the consumer.        *)
(***************************************************************************)
CanCall == ~crashed /\ ~call.active /\ Len(sfs) < MaxCalls

NextAvailableIPv4Subnet(numBits) ==
    /\ CanCall
    /\ sfs' = Append(sfs, newSubnetV4Factory(numBits))
    /\ call' = [active |-> TRUE, fam |-> 4, m |-> numBits, pc |-> "range",
                tried |-> <<>>]
    /\ last' = NoCall
    /\ UNCHANGED <<engine, crashed, returned, tested, nOps, added, released, host>>

NextAvailableIPv6Subnet(numBits) ==
    /\ CanCall
    /\ sfs' = Append(sfs, newSubnetV6Factory(numBits))
    /\ call' = [active |-> TRUE, fam |-> 6, m |-> numBits, pc |-> "range",
                tried |-> <<>>]
    /\ last' = NoCall
    /\ UNCHANGED <<engine, crashed, returned, tested, nOps, added, released, host>>

\* calculateSubnet picking the IPv6 allocator unless ip_family is "ipv6"
calculateSubnet_Swapped(ipFamily, cidrMaskLength) ==
    IF ipFamily = "ipv6"
    THEN NextAvailableIPv4Subnet(cidrMaskLength)
    ELSE NextAvailableIPv6Subnet(cidrMaskLength)

\* SubnetResource.calculateSubnet: the IPv6 allocator for ip_family "ipv6",
\* the IPv4 allocator otherwise.
calculateSubnet(ipFamily, cidrMaskLength) ==
    IF ipFamily = "ipv6"
    THEN NextAvailableIPv6Subnet(cidrMaskLength)
    ELSE NextAvailableIPv4Subnet(cidrMaskLength)

Saturate(s, x) == IF Len(s) < MaxEmit THEN Append(s, x) ELSE s

Finished(ok, prefix) ==
    [op |-> "next", fam |-> call.fam, m |-> call.m, ok |-> ok, prefix |-> prefix,
     pools |-> IF call.fam = 4 THEN IPv4Pools ELSE IPv6Pools,
     from |-> sfs[Current].n,                 \* the pool the walk was in
     tried |-> IF ok THEN Saturate(call.tried, prefix) ELSE call.tried,
     order |-> added,
     released |-> released,
     before |-> engine]

\* One iteration of "for subnet := range sf.subnetsChan": the rendezvous with
\* the producer's send, the availability test, and on a fit the insert and
\* the return statement; the deferred stop() follows.
RangeReceive ==
    /\ ~crashed
    /\ call.active
    /\ call.pc = "range"
    /\ sfs[Current].pc = "send"
    /\ LET subnet == sfs[Current].cand
           avail == prefixAvailable(subnet)
       IN /\ tested' = [cand |-> subnet, avail |-> avail,
                         allocated |-> IF Is6(subnet) THEN AllocatedIPv6Prefixes
                                       ELSE AllocatedIPv4Prefixes]
          /\ IF avail
             THEN /\ IF call.fam = 4
                     THEN /\ AllocatedIPv4Prefixes' = Insert(AllocatedIPv4Prefixes, subnet)
                          /\ UNCHANGED AllocatedIPv6Prefixes
                     ELSE /\ AllocatedIPv6Prefixes' = Insert(AllocatedIPv6Prefixes, subnet)
                          /\ UNCHANGED AllocatedIPv4Prefixes
                  /\ sfs' = [sfs EXCEPT ![Current].pc = "step",
                                        ![Current].sent = Saturate(@, subnet)]
                  /\ call' = [call EXCEPT !.pc = "stop",
                                         !.tried = Saturate(@, subnet)]
                  /\ last' = Finished(TRUE, subnet)
                  /\ returned' = Append(returned, subnet)
                  /\ released' = NoPrefix
             ELSE /\ sfs' = [sfs EXCEPT ![Current].pc = "step",
                                        ![Current].sent = Saturate(@, subnet)]
                  /\ call' = [call EXCEPT !.tried = Saturate(@, subnet)]
                  /\ UNCHANGED <<AllocatedIPv4Prefixes, AllocatedIPv6Prefixes,
                                 last, returned, released>>
    /\ UNCHANGED <<IPv4Pools, IPv6Pools, crashed, nOps, added, host>>

\* The deferred sf.stop() of a call that returns a subnet: close(sf.doneChan).
stop ==
    /\ ~crashed
    /\ call.active
    /\ call.pc = "stop"
    /\ sfs' = [sfs EXCEPT ![Current].done = TRUE]
    /\ call' = [call EXCEPT !.active = FALSE, !.pc = "range", !.tried = <<>>]
    /\ UNCHANGED <<engine, crashed, last, returned, tested, nOps, added, released, host>>

\* The range loop ends on the closed channel: the error return and stop().
RangeClosed ==
    /\ ~crashed
    /\ call.active
    /\ call.pc = "range"
    /\ sfs[Current].closed
    /\ sfs' = [sfs EXCEPT ![Current].done = TRUE]
    /\ call' = [call EXCEPT !.active = FALSE, !.tried = <<>>]
    /\ last' = Finished(FALSE, NoPrefix)
    /\ released' = NoPrefix
    /\ UNCHANGED <<engine, crashed, returned, tested, nOps, added, host>>

Next ==
    \/ \E prefix \in PoolInputs : AddPool(prefix)
    \/ \E prefix \in PoolInputs : DeletePool(prefix)
    \/ \E prefix \in ClaimInputs : AddAllocatedPrefix(prefix)
    \/ \E prefix \in ClaimInputs : DeleteAllocatedPrefix(prefix)
    \/ \E numBits \in MaskInputs4 : NextAvailableIPv4Subnet(numBits)
    \/ \E numBits \in MaskInputs6 : NextAvailableIPv6Subnet(numBits)
    \/ \E ipFamily \in FamilyInputs : \E cidrMaskLength \in MaskInputs(ipFamily) :
          calculateSubnet(ipFamily, cidrMaskLength)
    \/ \E prefix \in ClaimInputs \cup Range(returned) : AskPrefixInPools(prefix)
    \/ \E i \in 1..Len(sfs) : run4(i)
    \/ \E i \in 1..Len(sfs) : run6(i)
    \/ RangeReceive
    \/ stop
    \/ RangeClosed

Spec == Init /\ [][Next]_vars

\* Behaviours made of index operations and PrefixInPools calls only, over
\* more prefixes: a second pool at 64.0.0.0 and a prefix with a host bit set,
\* which netip.ParsePrefix hands over unmasked.
RawPoolInputs == PoolInputs \cup {V4(64, 0, 0, 0, 3), V4(96, 0, 0, 0, 2)}

RawClaimInputs == ClaimInputs \cup {V4(96, 0, 0, 0, 2)}

IndexNext ==
    \/ \E prefix \in RawPoolInputs : AddPool(prefix)
    \/ \E prefix \in RawPoolInputs : DeletePool(prefix)
    \/ \E prefix \in RawClaimInputs : AddAllocatedPrefix(prefix)
    \/ \E prefix \in RawClaimInputs : DeleteAllocatedPrefix(prefix)
    \/ \E prefix \in RawClaimInputs : AskPrefixInPools(prefix)

IndexSpec == Init /\ [][IndexNext]_vars

\* A calculator that already holds pools and allocations, as a sequence of
\* AddPool and AddAllocatedPrefix calls leaves it (one entry per key), from
\* which pools are removed and PrefixInPools is asked.
KeysApart(tree) == \A q \in tree : \A r \in tree : Key(q) = Key(r) => q = r

Loaded(inputs) == {tree \in SUBSET inputs : KeysApart(tree)}

StrandInit ==
    /\ IPv4Pools \in Loaded({P \in RawPoolInputs : Is4(P)})
    /\ IPv6Pools \in Loaded({P \in RawPoolInputs : Is6(P)})
    /\ AllocatedIPv4Prefixes \in Loaded({P \in RawClaimInputs : Is4(P)})
    /\ AllocatedIPv6Prefixes \in Loaded({P \in RawClaimInputs : Is6(P)})
    /\ sfs = <<>>
    /\ call = [active |-> FALSE, fam |-> 4, m |-> 0, pc |-> "range", tried |-> <<>>]
    /\ crashed = FALSE
    /\ last = NoCall
    /\ returned = <<>>
    /\ tested = NoTest
    /\ nOps = 0
    /\ added = Walk(IPv4Pools \cup IPv6Pools)
    /\ released = NoPrefix
    /\ calc = NewModeCalculator
    /\ state = NoResource

StrandNext ==
    \/ \E prefix \in RawPoolInputs : DeletePool(prefix)
    \/ \E prefix \in RawClaimInputs : AskPrefixInPools(prefix)

StrandSpec == StrandInit /\ [][StrandNext]_vars

\* What producer and consumer compute when run4 / run6 and the range loop
\* are read as one sequential program over the indexes the call started
\* with: [ok, prefix], or "aborted" when an increment panics first.
RECURSIVE seqWalk(_, _, _)
RECURSIVE seqLoop(_, _, _, _, _)
seqWalk(todo, allocs, m) ==
    IF todo = <<>> THEN [ok |-> FALSE, prefix |-> NoPrefix, aborted |-> FALSE]
    ELSE LET n == Head(todo)
             newPrefix == PrefixFrom(n.addr, m)
         IN IF walkAvailable(Walk(allocs), newPrefix)
            THEN [ok |-> TRUE, prefix |-> newPrefix, aborted |-> FALSE]
            ELSE seqLoop(n, n.addr, Tail(todo), allocs, m)

seqLoop(n, addr, rest, allocs, m) ==
    LET r == incrementN(addr, m)
        newPrefix == PrefixFrom(r.a, m)
    IN IF r.panic THEN [ok |-> FALSE, prefix |-> NoPrefix, aborted |-> TRUE]
       ELSE IF ~Contains(n, newPrefix.addr) THEN seqWalk(rest, allocs, m)
       ELSE IF walkAvailable(Walk(allocs), newPrefix)
            THEN [ok |-> TRUE, prefix |-> newPrefix, aborted |-> FALSE]
            ELSE seqLoop(n, r.a, rest, allocs, m)

(***************************************************************************)
(* The single-mode engines: the Calculator with one pool index, one        *)
(* allocation index and a Mode fixed by the first prefix added, and the    *)
(* constructor New of the SubnetCalculator.                                *)
(***************************************************************************)
ModeInputs == {V4(64, 0, 0, 0, 2), V4(64, 0, 0, 0, 3), V6(252, 62), V6(252, 64)}

MaxList == 2     \* longest pool / claimed list given to New

ListInputs == UNION {[1..n -> ModeInputs] : n \in 0..MaxList}

\* checkMode without its two error cases
checkMode_NoError(c, prefix) ==
    [Mode |-> IF c.Mode = "ModeUnknown" /\ Is4(prefix) THEN "ModeV4"
              ELSE IF c.Mode = "ModeUnknown" /\ Is6(prefix) THEN "ModeV6"
              ELSE c.Mode,
     err |-> FALSE]

\* checkMode: the mode it leaves in c.Mode and whether it returns an error
checkMode(c, prefix) ==
    IF c.Mode = "ModeUnknown" /\ Is4(prefix) THEN [Mode |-> "ModeV4", err |-> FALSE]
    ELSE IF c.Mode = "ModeUnknown" /\ Is6(prefix) THEN [Mode |-> "ModeV6", err |-> FALSE]
    ELSE IF c.Mode = "ModeV4" /\ ~Is4(prefix) THEN [Mode |-> c.Mode, err |-> TRUE]
    ELSE IF c.Mode = "ModeV6" /\ ~Is6(prefix) THEN [Mode |-> c.Mode, err |-> TRUE]
    ELSE [Mode |-> c.Mode, err |-> FALSE]

\* the single-mode AddPool / AddAllocatedPrefix on a calculator value:
\* [c, err]
addPool(c, prefix) ==
    LET r == checkMode(c, prefix)
    IN IF r.err THEN [c |-> [c EXCEPT !.Mode = r.Mode], err |-> TRUE]
       ELSE [c |-> [c EXCEPT !.Mode = r.Mode, !.Pools = Insert(@, prefix)],
             err |-> FALSE]

addAllocatedPrefix(c, prefix) ==
    LET r == checkMode(c, prefix)
    IN IF r.err THEN [c |-> [c EXCEPT !.Mode = r.Mode], err |-> TRUE]
       ELSE [c |-> [c EXCEPT !.Mode = r.Mode, !.AllocatedPrefixes = Insert(@, prefix)],
             err |-> FALSE]

ModeOperated(name, prefix, err) ==
    /\ nOps' = nOps + 1
    /\ last' = [op |-> name, prefix |-> prefix, err |-> err, before |-> calc]
    /\ UNCHANGED <<engine, sfs, call, crashed, returned, tested, added, released, state>>

ModeAddPool(prefix) ==
    /\ CanOperate
    /\ calc' = addPool(calc, prefix).c
    /\ ModeOperated("ModeAddPool", prefix, addPool(calc, prefix).err)

ModeDeletePool(prefix) ==
    /\ CanOperate
    /\ calc' = [calc EXCEPT !.Pools = Delete(@, prefix)]
    /\ ModeOperated("ModeDeletePool", prefix, FALSE)

ModeAddAllocatedPrefix(prefix) ==
    /\ CanOperate
    /\ calc' = addAllocatedPrefix(calc, prefix).c
    /\ ModeOperated("ModeAddAllocatedPrefix", prefix, addAllocatedPrefix(calc, prefix).err)

ModeDeleteAllocatedPrefix(prefix) ==
    /\ CanOperate
    /\ calc' = [calc EXCEPT !.AllocatedPrefixes = Delete(@, prefix)]
    /\ ModeOperated("ModeDeleteAllocatedPrefix", prefix, FALSE)

\* the result of New when it returns SubnetCalculator{} and an error
NewFailed == [err |-> TRUE, Supernets |-> {}, Subnets |-> {}, Mode |-> "ModeUnknown"]

\* the two loops of New; r carries the trees and the mode built so far
RECURSIVE newSubnets(_, _)
newSubnets(subnets, r) ==
    IF subnets = <<>> THEN r
    ELSE LET subnet == Head(subnets)
         IN IF r.Mode = "ModeV4" /\ ~Is4(subnet) THEN NewFailed
            ELSE IF r.Mode = "ModeV6" /\ ~Is6(subnet) THEN NewFailed
            ELSE newSubnets(Tail(subnets),
                            [r EXCEPT !.Subnets = Insert(@, subnet)])

RECURSIVE newSupernets(_, _, _)
newSupernets(supernets, subnets, r) ==
    IF supernets = <<>> THEN newSubnets(subnets, r)
    ELSE LET supernet == Head(supernets)
             mode == IF r.Mode = "ModeUnknown" /\ Is4(supernet) THEN "ModeV4"
                     ELSE IF r.Mode = "ModeUnknown" /\ Is6(supernet) THEN "ModeV6"
                     ELSE r.Mode
         IN IF r.Mode = "ModeV4" /\ ~Is4(supernet) THEN NewFailed
            ELSE IF r.Mode = "ModeV6" /\ ~Is6(supernet) THEN NewFailed
            ELSE newSupernets(Tail(supernets), subnets,
                              [r EXCEPT !.Mode = mode,
                                        !.Supernets = Insert(@, supernet)])

New(supernets, subnets) ==
    IF Len(supernets) = 0 THEN NewFailed
    ELSE newSupernets(supernets, subnets,
                      [err |-> FALSE, Supernets |-> {}, Subnets |-> {},
                       Mode |-> "ModeUnknown"])

\* A call of the constructor, before anything else is done.
Construct(supernets, subnets) ==
    /\ ~crashed
    /\ last = NoCall
    /\ nOps = 0
    /\ last' = [op |-> "New", supernets |-> supernets, subnets |-> subnets,
                result |-> New(supernets, subnets)]
    /\ UNCHANGED <<engine, sfs, call, crashed, returned, tested, nOps, added,
                   released, host>>

\* The single-mode NextAvailableSubnet on a calculator value.  run() panics
\* when the mode was never set; otherwise the call is the sequential reading
\* of producer and consumer, and a fit is inserted.
nextAvailableSubnet(c, numBits) ==
    IF c.Mode = "ModeUnknown"
    THEN [ok |-> FALSE, prefix |-> NoPrefix, aborted |-> TRUE, c |-> c]
    ELSE LET x == seqWalk(Walk(c.Pools), c.AllocatedPrefixes, numBits)
         IN [ok |-> x.ok, prefix |-> x.prefix, aborted |-> x.aborted,
             c |-> IF x.ok
                   THEN [c EXCEPT !.AllocatedPrefixes = Insert(@, x.prefix)]
                   ELSE c]

ModeMaskInputs == {3, 64}

\* Calculator.NextAvailableSubnet of the single-mode engine
ModeNextAvailableSubnet(numBits) ==
    /\ CanOperate
    /\ LET x == nextAvailableSubnet(calc, numBits)
       IN /\ calc' = x.c
          /\ crashed' = x.aborted
          /\ last' = [op |-> "ModeNextAvailableSubnet", prefix |-> x.prefix,
                      err |-> ~x.ok, before |-> calc]
    /\ nOps' = nOps + 1
    /\ UNCHANGED <<engine, sfs, call, returned, tested, added, released, state>>

ModeNext ==
    \/ \E prefix \in ModeInputs : ModeAddPool(prefix)
    \/ \E prefix \in ModeInputs : ModeDeletePool(prefix)
    \/ \E prefix \in ModeInputs : ModeAddAllocatedPrefix(prefix)
    \/ \E prefix \in ModeInputs : ModeDeleteAllocatedPrefix(prefix)
    \/ \E numBits \in ModeMaskInputs : ModeNextAvailableSubnet(numBits)
    \/ \E supernets \in ListInputs : \E subnets \in ListInputs :
          Construct(supernets, subnets)

ModeSpec == Init /\ [][ModeNext]_vars

(***************************************************************************)
(* CIDR texts.  A text is the sequence of its tokens: the address octets   *)
(* in decimal, "/" and the mask length in decimal, as Prefix.String        *)
(* writes them and netip.ParsePrefix reads them.                           *)
(***************************************************************************)
\* netip.Prefix.String
PrefixString(prefix) ==
    IF ~IsValid(prefix) THEN <<"invalid Prefix">>
    ELSE [k \in 1..Len(prefix.addr) |-> ToString(prefix.addr[k])]
            \o <<"/", ToString(prefix.bits)>>

IsNumber(token, max) == \E n \in 0..max : ToString(n) = token

Number(token, max) == CHOOSE n \in 0..max : ToString(n) = token

\* netip.ParsePrefix: the text is split at its last "/"; the part before it
\* must be an address (four or sixteen octets), the part after it a mask
\* length within the address width.  On an error the zero Prefix is
\* returned with it.
ParsePrefix(text) ==
    LET slashes == {k \in 1..Len(text) : text[k] = "/"}
        i == CHOOSE k \in slashes : \A j \in slashes : j <= k
        ip == SubSeq(text, 1, i - 1)
        bits == SubSeq(text, i + 1, Len(text))
    IN IF /\ slashes # {}
          /\ Len(ip) \in {4, 16}
          /\ \A k \in 1..Len(ip) : IsNumber(ip[k], 255)
          /\ Len(bits) = 1
          /\ IsNumber(bits[1], 8 * Len(ip))
       THEN [err |-> FALSE,
             prefix |-> Pfx([k \in 1..Len(ip) |-> Number(ip[k], 255)],
                            Number(bits[1], 8 * Len(ip)))]
       ELSE [err |-> TRUE, prefix |-> NoPrefix]

\* Diagnostics.HasError: the diagnostics are the summaries of the errors added
HasError(diagnostics) == diagnostics # <<>>

(***************************************************************************)
(* The single-subnet resource on the provider's calculator.                *)
(***************************************************************************)
\* parsePrefix(cidr, diagnostics): the prefix it returns and the caller's
\* diagnostics after the call.  diag.Diagnostics is a slice passed by value:
\* AddError appends to the callee's copy and the caller's stays as it was.
parsePrefix(cidr, diagnostics) ==
    [n |-> ParsePrefix(cidr).prefix, diagnostics |-> diagnostics]

\* Read that never removes the resource from the state
SubnetResourceRead_NeverDrops ==
    /\ CanOperate
    /\ state.exists
    /\ last' = [op |-> "Read", data |-> state,
                p |-> parsePrefix(state.CIDRBlock, <<>>).n,
                diagnostics |-> parsePrefix(state.CIDRBlock, <<>>).diagnostics,
                before |-> engine]
    /\ nOps' = nOps + 1
    /\ UNCHANGED <<engine, sfs, call, crashed, returned, tested, added, released, host>>

\* SubnetResource.Read
SubnetResourceRead ==
    /\ CanOperate
    /\ state.exists
    /\ LET r == parsePrefix(state.CIDRBlock, <<>>)
       IN /\ state' = IF HasError(r.diagnostics) THEN state
                      ELSE IF ~PrefixInPools(r.n) THEN NoResource
                      ELSE state
          /\ last' = [op |-> "Read", data |-> state, p |-> r.n,
                      diagnostics |-> r.diagnostics, before |-> engine]
    /\ nOps' = nOps + 1
    /\ UNCHANGED <<engine, sfs, call, crashed, returned, tested, added, released, calc>>

\* SubnetResource.Delete; when it returns without an error the framework
\* removes the resource from the state.
SubnetResourceDelete ==
    /\ CanOperate
    /\ state.exists
    /\ LET r == parsePrefix(state.CIDRBlock, <<>>)
       IN /\ IF HasError(r.diagnostics)
             THEN UNCHANGED <<AllocatedIPv4Prefixes, AllocatedIPv6Prefixes, state>>
             ELSE /\ IF Is4(r.n)
                     THEN /\ AllocatedIPv4Prefixes' = Delete(AllocatedIPv4Prefixes, r.n)
                          /\ UNCHANGED AllocatedIPv6Prefixes
                     ELSE /\ AllocatedIPv6Prefixes' = Delete(AllocatedIPv6Prefixes, r.n)
                          /\ UNCHANGED AllocatedIPv4Prefixes
                  /\ state' = NoResource
          /\ last' = [op |-> "Delete", data |-> state, p |-> r.n,
                      diagnostics |-> r.diagnostics, before |-> engine]
    /\ nOps' = nOps + 1
    /\ UNCHANGED <<IPv4Pools, IPv6Pools, sfs, call, crashed, returned, tested,
                   added, released, calc>>

\* the cidr_block texts a state can hold: texts of prefixes, the text of the
\* invalid prefix and a text with an octet missing
TextInputs ==
    {PrefixString(P) : P \in ClaimInputs}
       \cup {PrefixString(NoPrefix), <<"64", "0", "0", "/", "2">>}

\* The provider's calculator as Configure loaded it, an allocation at the
\* address :: included, and a resource in the state.
ResourceInit ==
    /\ IPv4Pools \in Loaded({P \in PoolInputs : Is4(P)})
    /\ IPv6Pools \in Loaded({P \in PoolInputs : Is6(P)})
    /\ AllocatedIPv4Prefixes \in Loaded({P \in ClaimInputs : Is4(P)})
    /\ AllocatedIPv6Prefixes
          \in Loaded({P \in ClaimInputs : Is6(P)} \cup {Pfx(Zeros(16), 64)})
    /\ sfs = <<>>
    /\ call = [active |-> FALSE, fam |-> 4, m |-> 0, pc |-> "range", tried |-> <<>>]
    /\ crashed = FALSE
    /\ last = NoCall
    /\ returned = <<>>
    /\ tested = NoTest
    /\ nOps = 0
    /\ added = Walk(IPv4Pools \cup IPv6Pools)
    /\ released = NoPrefix
    /\ calc = NewModeCalculator
    /\ state \in {[exists |-> TRUE, CIDRBlock |-> t, ID |-> t] : t \in TextInputs}

ResourceNext ==
    \/ SubnetResourceRead
    \/ SubnetResourceDelete

ResourceSpec == ResourceInit /\ [][ResourceNext]_vars

(***************************************************************************)
(* The multi-subnet resource: every handler builds its own single-mode     *)
(* Calculator from the pool, existing and calculated CIDR blocks of a      *)
(* resource model.                                                         *)
(***************************************************************************)
MaxCount == 2    \* largest cidr_count

\* the loops of LoadCIDRBlocks over a list of texts; r is the calculator and
\* the diagnostics so far
RECURSIVE loadPools(_, _)
loadPools(texts, r) ==
    IF texts = <<>> THEN r
    ELSE LET n == ParsePrefix(Head(texts))
             a == addPool(r.c, n.prefix)
         IN IF n.err
            THEN loadPools(Tail(texts),
                           [r EXCEPT !.diagnostics = Append(@, "CIDR parsing error")])
            ELSE loadPools(Tail(texts),
                           [c |-> a.c,
                            diagnostics |-> IF a.err
                                            THEN Append(r.diagnostics, "Subnet calculator error")
                                            ELSE r.diagnostics])

RECURSIVE loadAllocated(_, _)
loadAllocated(texts, r) ==
    IF texts = <<>> THEN r
    ELSE LET n == ParsePrefix(Head(texts))
             a == addAllocatedPrefix(r.c, n.prefix)
         IN IF n.err
            THEN loadAllocated(Tail(texts),
                               [r EXCEPT !.diagnostics = Append(@, "CIDR parsing error")])
            ELSE loadAllocated(Tail(texts),
                               [c |-> a.c,
                                diagnostics |-> IF a.err
                                                THEN Append(r.diagnostics, "Subnet calculator error")
                                                ELSE r.diagnostics])

\* LoadCIDRBlocks(s, calculator): pools, then existing blocks, then the
\* calculated blocks of the model (none when cidr_blocks is unknown)
LoadCIDRBlocks(s, calculator) ==
    loadAllocated(s.CIDRBlocks,
        loadAllocated(s.ExistingCIDRBlocks,
            loadPools(s.PoolCIDRBlocks, [c |-> calculator, diagnostics |-> <<>>])))

\* strings.Join and strings.Split on token sequences
RECURSIVE Join(_, _)
Join(elems, sep) ==
    IF elems = <<>> THEN <<>>
    ELSE IF Len(elems) = 1 THEN elems[1]
    ELSE elems[1] \o <<sep>> \o Join(Tail(elems), sep)

RECURSIVE Split(_, _)
Split(text, sep) ==
    LET seps == {k \in 1..Len(text) : text[k] = sep}
        i == CHOOSE k \in seps : \A j \in seps : k <= j
    IN IF seps = {} THEN <<text>>
       ELSE <<SubSeq(text, 1, i - 1)>> \o Split(SubSeq(text, i + 1, Len(text)), sep)

\* the allocation loop of Create: the prefixes returned so far, and how the
\* loop ended
RECURSIVE createLoop(_, _, _, _)
createLoop(c, cidrMaskLength, count, next) ==
    IF count <= 0 THEN [err |-> FALSE, aborted |-> FALSE, next |-> next]
    ELSE LET x == nextAvailableSubnet(c, cidrMaskLength)
         IN IF x.aborted THEN [err |-> FALSE, aborted |-> TRUE, next |-> next]
            ELSE IF ~x.ok THEN [err |-> TRUE, aborted |-> FALSE, next |-> next]
            ELSE createLoop(x.c, cidrMaskLength, count - 1, Append(next, x.prefix))

\* next.String() of every returned prefix, in the order of the calls
Strings(prefixes) == [k \in 1..Len(prefixes) |-> PrefixString(prefixes[k])]

\* the plan of a resource that is being created: the computed attributes
\* are unknown
Plan(pools, existing, cidrMaskLength, count) ==
    [exists |-> TRUE, PoolCIDRBlocks |-> pools, ExistingCIDRBlocks |-> existing,
     CIDRMaskLength |-> cidrMaskLength, CIDRCount |-> count,
     CIDRBlocks |-> <<>>, ID |-> <<>>]

HostOperated ==
    /\ nOps' = nOps + 1
    /\ UNCHANGED <<engine, sfs, call, returned, tested, added, released, calc>>

\* SubnetsResource.Create
SubnetsCreate(pools, existing, cidrMaskLength, count) ==
    /\ CanOperate
    /\ ~state.exists
    /\ LET data == Plan(pools, existing, cidrMaskLength, count)
           r == LoadCIDRBlocks(data, NewModeCalculator)
           x == createLoop(r.c, cidrMaskLength, count, <<>>)
           failed == HasError(r.diagnostics) \/ x.err \/ x.aborted
       IN /\ state' = IF failed THEN state
                      ELSE [data EXCEPT !.CIDRBlocks = Strings(x.next),
                                        !.ID = Join(Strings(x.next), ",")]
          /\ crashed' = (~HasError(r.diagnostics) /\ x.aborted)
          /\ last' = [op |-> "Create", data |-> data,
                      diagnostics |-> IF HasError(r.diagnostics) THEN r.diagnostics
                                      ELSE IF x.err THEN <<"CIDR calculation error">>
                                      ELSE <<>>,
                      loaded |-> r.c,
                      next |-> IF HasError(r.diagnostics) THEN <<>> ELSE x.next]
    /\ HostOperated

\* the first loop of ImportState: the elements of the ID that parse
Parsed(elems) == SelectSeq(elems, LAMBDA cidr : ~ParsePrefix(cidr).err)

\* SubnetsResource.ImportState.  prefixes[0] is read also when no element
\* parsed: an index out of range, which aborts the process.
SubnetsImportState(id) ==
    /\ CanOperate
    /\ ~state.exists
    /\ LET elems == Split(id, ",")
           calculatedCIDRs == Parsed(elems)
           prefixes == [k \in 1..Len(calculatedCIDRs) |->
                           ParsePrefix(calculatedCIDRs[k]).prefix]
           parsing == [k \in 1..(Len(elems) - Len(calculatedCIDRs)) |->
                          "CIDR parsing error"]
           invalid == IF Len(prefixes) = 0 THEN <<"Invalid ID">> ELSE <<>>
           maskLength == prefixes[1].bits
           mixed == SelectSeq(prefixes, LAMBDA q : q.bits # maskLength)
           lengths == [k \in 1..Len(mixed) |-> "CIDR prefix lengths do not match"]
       IN IF Len(prefixes) = 0
          THEN /\ crashed' = TRUE
               /\ UNCHANGED state
               /\ last' = [op |-> "Import", id |-> id,
                           diagnostics |-> parsing \o invalid]
          ELSE /\ UNCHANGED crashed
               /\ state' = IF HasError(parsing \o lengths) THEN state
                           ELSE [exists |-> TRUE, PoolCIDRBlocks |-> <<>>,
                                 ExistingCIDRBlocks |-> <<>>,
                                 CIDRMaskLength |-> maskLength,
                                 CIDRCount |-> Len(calculatedCIDRs),
                                 CIDRBlocks |-> calculatedCIDRs, ID |-> id]
               /\ last' = [op |-> "Import", id |-> id,
                           diagnostics |-> parsing \o lengths]
    /\ HostOperated

\* The texts of the resource configurations.
PoolListInputs ==
    { <<>>,
      <<PrefixString(V4(64, 0, 0, 0, 2))>>,
      <<PrefixString(V4(64, 0, 0, 0, 3))>>,
      <<PrefixString(V4(128, 0, 0, 0, 2))>>,
      <<PrefixString(V4(64, 0, 0, 0, 2)), PrefixString(V4(128, 0, 0, 0, 2))>>,
      <<PrefixString(V4(64, 0, 0, 0, 2)), PrefixString(V6(252, 62))>> }

ExistingListInputs ==
    { <<>>,
      <<PrefixString(V4(64, 0, 0, 0, 3))>>,
      <<PrefixString(V4(96, 0, 0, 0, 3))>> }

MaskLengthInputs == {2, 3}

IdInputs ==
    { <<>>,
      <<"x">>,
      PrefixString(V4(64, 0, 0, 0, 3)),
      Join(<<PrefixString(V4(64, 0, 0, 0, 3)), PrefixString(V4(96, 0, 0, 0, 3))>>, ","),
      Join(<<PrefixString(V4(64, 0, 0, 0, 3)), PrefixString(V4(128, 0, 0, 0, 2))>>, ","),
      Join(<<PrefixString(V4(64, 0, 0, 0, 3)), <<"x">>>>, ","),
      Join(<<PrefixString(V6(252, 64)), PrefixString(V4(96, 0, 0, 0, 3))>>, ",") }

\* the single-mode PrefixInPools on a calculator value
prefixInPools(c, prefix) == \E n \in c.Pools : Contains(n, prefix.addr)

\* AvailableCIDRBlocksNoLongerContainsResourceCIDR: the configuration is
\* loaded into a new calculator and every CIDR block of the state that
\* parses is tested with PrefixInPools
requiresReplace(data, config) ==
    LET r == LoadCIDRBlocks(config, NewModeCalculator)
        cidrs == Parsed(data.CIDRBlocks)
    IN IF HasError(r.diagnostics)
       THEN [RequiresReplace |-> FALSE, diagnostics |-> r.diagnostics]
       ELSE [RequiresReplace |->
                 \E k \in 1..Len(cidrs) :
                     ~prefixInPools(r.c, ParsePrefix(cidrs[k]).prefix),
             diagnostics |->
                 [k \in 1..(Len(data.CIDRBlocks) - Len(cidrs)) |-> "CIDR parsing error"]]

\* the configuration with another pool set; the computed attributes are
\* null in a configuration
Config(data, pools, existing) ==
    [data EXCEPT !.PoolCIDRBlocks = pools, !.ExistingCIDRBlocks = existing,
                 !.CIDRBlocks = <<>>, !.ID = <<>>]

\* the plan modifier of pool_cidr_blocks, run when the pool set of the
\* configuration differs from the one of the state
SubnetsPlanModify(pools) ==
    /\ CanOperate
    /\ state.exists
    /\ pools # state.PoolCIDRBlocks
    /\ LET config == Config(state, pools, state.ExistingCIDRBlocks)
           resp == requiresReplace(state, config)
       IN last' = [op |-> "PlanModify", data |-> state, config |-> config,
                   RequiresReplace |-> resp.RequiresReplace,
                   diagnostics |-> resp.diagnostics]
    /\ UNCHANGED <<state, crashed>>
    /\ HostOperated

\* Update that calculates the blocks again
updated_Recalculated(data, plan) ==
    LET r == LoadCIDRBlocks(Config(plan, plan.PoolCIDRBlocks, plan.ExistingCIDRBlocks),
                            NewModeCalculator)
        x == createLoop(r.c, plan.CIDRMaskLength, plan.CIDRCount, <<>>)
    IN IF HasError(r.diagnostics) \/ x.err \/ x.aborted
       THEN [data |-> data, diagnostics |-> <<"CIDR calculation error">>]
       ELSE [data |-> [plan EXCEPT !.CIDRBlocks = Strings(x.next),
                                   !.ID = Join(Strings(x.next), ",")],
             diagnostics |-> <<>>]

\* the body of Update: the state that is saved, and the diagnostics
updated(data, plan) ==
    LET r == LoadCIDRBlocks(plan, NewModeCalculator)
    IN IF HasError(r.diagnostics)
       THEN [data |-> data, diagnostics |-> r.diagnostics]
       ELSE [data |-> [plan EXCEPT !.CIDRBlocks = data.CIDRBlocks, !.ID = data.ID],
             diagnostics |-> <<>>]

\* SubnetsResource.Update.  cidr_mask_length and cidr_count require a
\* replacement, and so does a pool set for which the plan modifier says so:
\* Update sees the other changes.  cidr_blocks of the plan is the one of the
\* state (UseStateForUnknown).
SubnetsUpdate(pools, existing) ==
    /\ CanOperate
    /\ state.exists
    /\ <<pools, existing>> # <<state.PoolCIDRBlocks, state.ExistingCIDRBlocks>>
    /\ ~requiresReplace(state, Config(state, pools, existing)).RequiresReplace
    /\ LET plan == [state EXCEPT !.PoolCIDRBlocks = pools,
                                 !.ExistingCIDRBlocks = existing, !.ID = <<>>]
           resp == updated(state, plan)
       IN /\ state' = resp.data
          /\ last' = [op |-> "Update", data |-> state, plan |-> plan,
                      diagnostics |-> resp.diagnostics]
    /\ UNCHANGED crashed
    /\ HostOperated

SubnetsNext ==
    \/ \E pools \in PoolListInputs, existing \in ExistingListInputs,
          cidrMaskLength \in MaskLengthInputs, count \in 0..MaxCount :
           SubnetsCreate(pools, existing, cidrMaskLength, count)
    \/ \E id \in IdInputs : SubnetsImportState(id)
    \/ \E pools \in PoolListInputs : SubnetsPlanModify(pools)
    \/ \E pools \in PoolListInputs, existing \in ExistingListInputs :
           SubnetsUpdate(pools, existing)

SubnetsSpec == Init /\ [][SubnetsNext]_vars

(***************************************************************************)
(* The earlier revision of the multi-subnet resource: the calculator is a  *)
(* field that Configure sets new for every request, the ID is a random     *)
(* UUID, and Update follows a change of cidr_count.                        *)
(***************************************************************************)
\* Create of the earlier revision
EarlierCreate(pools, existing, cidrMaskLength, count) ==
    /\ CanOperate
    /\ ~state.exists
    /\ LET data == Plan(pools, existing, cidrMaskLength, count)
           r == LoadCIDRBlocks(data, NewModeCalculator)
           x == createLoop(r.c, cidrMaskLength, count, <<>>)
           failed == HasError(r.diagnostics) \/ x.err \/ x.aborted
       IN /\ state' = IF failed THEN state
                      ELSE [data EXCEPT !.CIDRBlocks = Strings(x.next),
                                        !.ID = <<"uuid">>]
          /\ crashed' = (~HasError(r.diagnostics) /\ x.aborted)
          /\ last' = [op |-> "Create", data |-> data,
                      diagnostics |-> IF HasError(r.diagnostics) THEN r.diagnostics
                                      ELSE IF x.err THEN <<"CIDR calculation error">>
                                      ELSE <<>>]
    /\ HostOperated

\* IncreaseCIDRBlockCount: a failed call adds an error and the loop goes on
RECURSIVE IncreaseCIDRBlockCount(_, _, _, _, _)
IncreaseCIDRBlockCount(c, cidrs, count, cidrMaskLength, diagnostics) ==
    IF count <= 0
    THEN [cidrs |-> cidrs, diagnostics |-> diagnostics, aborted |-> FALSE]
    ELSE LET x == nextAvailableSubnet(c, cidrMaskLength)
         IN IF x.aborted
            THEN [cidrs |-> cidrs, diagnostics |-> diagnostics, aborted |-> TRUE]
            ELSE IF ~x.ok
            THEN IncreaseCIDRBlockCount(c, cidrs, count - 1, cidrMaskLength,
                                        Append(diagnostics, "CIDR calculation error"))
            ELSE IncreaseCIDRBlockCount(x.c, Append(cidrs, PrefixString(x.prefix)),
                                        count - 1, cidrMaskLength, diagnostics)

\* DecreaseCIDRBlockCount that drops the blocks from the front of the list
DecreaseCIDRBlockCount_FromFront(c, cidrs, count, diagnostics, deleted) ==
    [c |-> c, cidrs |-> SubSeq(cidrs, count + 1, Len(cidrs)),
     diagnostics |-> diagnostics, aborted |-> FALSE,
     deleted |-> [k \in 1..count |-> ParsePrefix(cidrs[k]).prefix]]

\* DecreaseCIDRBlockCount: DeleteAllocatedPrefix of the last block, which is
\* then dropped from the list; deleted is the sequence of the prefixes that
\* were passed to DeleteAllocatedPrefix
RECURSIVE DecreaseCIDRBlockCount(_, _, _, _, _)
DecreaseCIDRBlockCount(c, cidrs, count, diagnostics, deleted) ==
    IF count <= 0
    THEN [c |-> c, cidrs |-> cidrs, diagnostics |-> diagnostics,
          aborted |-> FALSE, deleted |-> deleted]
    ELSE IF cidrs = <<>>
    THEN [c |-> c, cidrs |-> cidrs, diagnostics |-> diagnostics,
          aborted |-> TRUE, deleted |-> deleted]
    ELSE LET n == ParsePrefix(cidrs[Len(cidrs)])
         IN IF n.err
            THEN DecreaseCIDRBlockCount(c, cidrs, count - 1,
                                        Append(diagnostics, "CIDR parsing error"),
                                        deleted)
            ELSE DecreaseCIDRBlockCount(
                     [c EXCEPT !.AllocatedPrefixes = Delete(@, n.prefix)],
                     SubSeq(cidrs, 1, Len(cidrs) - 1), count - 1,
                     diagnostics, Append(deleted, n.prefix))

\* Update of the earlier revision.  A change of the pool set always requires
\* a replacement, so Update sees the pools of the state.  cidr_blocks of the
\* plan is unknown (UnknownValueOnCIDRCountChange), so that LoadCIDRBlocks
\* finds no calculated block in it.
EarlierUpdate(existing, planCount) ==
    /\ CanOperate
    /\ state.exists
    /\ <<existing, planCount>> # <<state.ExistingCIDRBlocks, state.CIDRCount>>
    /\ LET plan == [state EXCEPT !.ExistingCIDRBlocks = existing,
                                 !.CIDRCount = planCount,
                                 !.CIDRBlocks = <<>>, !.ID = <<>>]
           r == LoadCIDRBlocks(plan, NewModeCalculator)
           stateCount == state.CIDRCount
           x == IF planCount = stateCount
                THEN [cidrs |-> state.CIDRBlocks, diagnostics |-> <<>>, aborted |-> FALSE]
                ELSE IF planCount > stateCount
                THEN IncreaseCIDRBlockCount(r.c, state.CIDRBlocks,
                                            planCount - stateCount,
                                            plan.CIDRMaskLength, <<>>)
                ELSE DecreaseCIDRBlockCount(r.c, state.CIDRBlocks,
                                            stateCount - planCount, <<>>, <<>>)
           deleted == IF planCount < stateCount THEN x.deleted ELSE <<>>
       IN IF HasError(r.diagnostics)
          THEN /\ UNCHANGED <<state, crashed>>
               /\ last' = [op |-> "Update", data |-> state, plan |-> plan,
                           loaded |-> r.c, diagnostics |-> r.diagnostics,
                           deleted |-> <<>>]
          ELSE /\ crashed' = x.aborted
               /\ state' = IF x.aborted \/ HasError(x.diagnostics) THEN state
                           ELSE [plan EXCEPT !.CIDRBlocks = x.cidrs, !.ID = state.ID]
               /\ last' = [op |-> "Update", data |-> state, plan |-> plan,
                           loaded |-> r.c, diagnostics |-> x.diagnostics,
                           deleted |-> deleted]
    /\ HostOperated

\* the plan modifier of the earlier revision: the state is loaded and
\* RequiresReplace is set whatever PrefixInPools said
EarlierPlanModify(pools) ==
    /\ CanOperate
    /\ state.exists
    /\ pools # state.PoolCIDRBlocks
    /\ LET r == LoadCIDRBlocks(state, NewModeCalculator)
       IN last' = [op |-> "PlanModify", data |-> state,
                   config |-> Config(state, pools, state.ExistingCIDRBlocks),
                   RequiresReplace |-> ~HasError(r.diagnostics),
                   diagnostics |-> r.diagnostics]
    /\ UNCHANGED <<state, crashed>>
    /\ HostOperated

EarlierNext ==
    \/ \E pools \in PoolListInputs, existing \in ExistingListInputs,
          cidrMaskLength \in MaskLengthInputs, count \in 0..MaxCount :
           EarlierCreate(pools, existing, cidrMaskLength, count)
    \/ \E existing \in ExistingListInputs, planCount \in 0..MaxCount :
           EarlierUpdate(existing, planCount)
    \/ \E pools \in PoolListInputs : EarlierPlanModify(pools)

EarlierSpec == Init /\ [][EarlierNext]_vars

(***************************************************************************)
(* increment4 and increment16 on their own: one call with an address and   *)
(* a bit position.                                                         *)
(***************************************************************************)
AddrInputs4 ==
    { <<0, 0, 0, 0>>, <<64, 0, 0, 0>>, <<10, 0, 255, 0>>, <<0, 255, 255, 255>>,
      <<127, 255, 255, 255>>, <<255, 255, 255, 255>>, <<255, 0, 0, 0>>,
      <<192, 168, 255, 128>> }

AddrInputs16 ==
    { Zeros(16), V6(252, 62).addr, V6(255, 64).addr,
      [k \in 1..16 |-> 255],
      [k \in 1..16 |-> IF k = 1 THEN 0 ELSE 255] }

Incremented(name, a, bit, result) ==
    /\ ~crashed
    /\ crashed' = result.panic
    /\ last' = [op |-> name, a |-> a, bit |-> bit, result |-> result]
    /\ UNCHANGED <<engine, sfs, call, returned, tested, added, released, nOps, host>>

Increment4(a, bit) == Incremented("increment4", a, bit, increment4(a, bit))

Increment16(a, bit) == Incremented("increment16", a, bit, increment16(a, bit))

IncrementNext ==
    \/ \E a \in AddrInputs4, bit \in 0..32 : Increment4(a, bit)
    \/ \E a \in AddrInputs16, bit \in 0..128 : Increment16(a, bit)

IncrementSpec == Init /\ [][IncrementNext]_vars

\* The Go scheduler runs every goroutine that can take a step: the producers
\* and the caller's loop are weakly fair.
producer(i) == i \in 1..Len(sfs) /\ (run4(i) \/ run6(i))

FairSpec ==
    /\ Spec
    /\ \A i \in 1..MaxCalls : WF_vars(producer(i))
    /\ WF_vars(RangeReceive)
    /\ WF_vars(stop)
    /\ WF_vars(RangeClosed)


(***************************************************************************)
(* The notions of the specification the claims are stated in.              *)
(***************************************************************************)
\* A contains B as a prefix: B is at least as long and A contains B's address.
ContainsPrefix(A, B) == IsValid(A) /\ IsValid(B) /\ B.bits >= A.bits /\ Contains(A, B.addr)

Overlap(A, B) == ContainsPrefix(A, B) \/ ContainsPrefix(B, A)

AllValid(tree) == \A A \in tree : IsValid(A)

ValidMask(fam, m) == m >= 0 /\ m <= (IF fam = 4 THEN 32 ELSE 128)

\* bit k (1 = most significant) of an address
Bit(a, k) == (a[((k - 1) \div 8) + 1] \div 2^(7 - ((k - 1) % 8))) % 2

\* the address whose bit k is f[k]
FromBits(f, n) ==
    [j \in 1..n |->
        f[8 * j - 7] * 128 + f[8 * j - 6] * 64 + f[8 * j - 5] * 32 + f[8 * j - 4] * 16
      + f[8 * j - 3] * 8 + f[8 * j - 2] * 4 + f[8 * j - 1] * 2 + f[8 * j]]

\* the i-th (from 0) subnet of length m of pool P: P's first P.bits bits,
\* then i written in the next m - P.bits bits, then zeros
SubnetAt(P, m, i) ==
    Pfx(FromBits([k \in 1..BitLen(P.addr) |->
                     IF k <= P.bits THEN Bit(P.addr, k)
                     ELSE IF k <= m THEN (i \div 2^(m - k)) % 2
                     ELSE 0],
                 Len(P.addr)),
        m)

\* the subnets of length m of pool P in ascending address order; none when
\* the pool is smaller than the request
SubnetSeq(P, m) ==
    IF IsValid(P) /\ P.bits <= m /\ m <= BitLen(P.addr)
    THEN [i \in 1..(2^(m - P.bits)) |-> SubnetAt(P, m, i - 1)]
    ELSE <<>>

SubnetsOf(P, m) == {SubnetSeq(P, m)[i] : i \in 1..Len(SubnetSeq(P, m))}

AddrLess(a, b) == LexLess(a, b)

AllocBefore(l) == IF l.fam = 4 THEN l.before[2] ELSE l.before[4]

AllocNow(fam) == IF fam = 4 THEN AllocatedIPv4Prefixes ELSE AllocatedIPv6Prefixes

Succeeded == last.op = "next" /\ last.ok

C2_ReturnedInsidePool ==
    (Succeeded /\ ValidMask(last.fam, last.m)) =>
        \E P \in last.pools :
            P.bits <= last.prefix.bits /\ Contains(P, last.prefix.addr)

C4_AvailableIffNoOverlap ==
    (IsValid(tested.cand) /\ AllValid(tested.allocated)) =>
        (tested.avail <=> ~\E A \in tested.allocated : Overlap(A, tested.cand))

\* a candidate was rejected because it strictly contains a smaller claimed prefix
C4_Witness ==
    /\ IsValid(tested.cand)
    /\ AllValid(tested.allocated)
    /\ ~tested.avail
    /\ \A A \in tested.allocated : ~ContainsPrefix(A, tested.cand)
    /\ \E A \in tested.allocated :
          ContainsPrefix(tested.cand, A) /\ A.bits > tested.cand.bits

(***************************************************************************)
(* C5: a pool longer than the requested length contributes no candidate:   *)
(* when every pool of the family is longer than the request, the call      *)
(* returns the NoSuitablePrefix error and records no allocation.           *)
(***************************************************************************)
C5_SmallPoolsGiveError ==
    (/\ last.op = "next"
     /\ ValidMask(last.fam, last.m)
     /\ \A P \in last.pools : P.bits > last.m) =>
        ~last.ok /\ engine = last.before

PoolsNow(fam) == IF fam = 4 THEN IPv4Pools ELSE IPv6Pools

\* every subnet of length m of every pool, and the first candidate the
\* producer forms for every pool, overlaps an allocation
AllCandidatesOverlap(pools, allocs, m) ==
    \A P \in pools :
        \A S \in SubnetsOf(P, m) \cup {PrefixFrom(P.addr, m)} :
            \E A \in allocs : Overlap(A, S)

(***************************************************************************)
(* C6: when every candidate of the requested length in every pool of the   *)
(* family overlaps an allocation, or the family has no pool, the call      *)
(* returns the NoSuitablePrefix error and leaves every index as it was.    *)
(* Stated for a finite run: such a call does not abort in its enumerator,  *)
(* and once finished it has returned the error with the indexes unchanged. *)
(***************************************************************************)
C6_ExhaustedGivesError ==
    /\ (/\ call.active /\ call.pc = "range"
        /\ ValidMask(call.fam, call.m)
        /\ AllCandidatesOverlap(PoolsNow(call.fam), AllocNow(call.fam), call.m)) =>
           sfs[Current].pc # "panicked"
    /\ (/\ last.op = "next"
        /\ ValidMask(last.fam, last.m)
        /\ AllCandidatesOverlap(last.pools, AllocBefore(last), last.m)) =>
           ~last.ok /\ engine = last.before

(***************************************************************************)
(* C7: next_available called with a mask length outside [0, W] returns an  *)
(* error by value: no prefix, no allocation recorded, and neither the call *)
(* nor its enumerator aborts the process.                                  *)
(***************************************************************************)
C7_BadMaskGivesError ==
    /\ (last.op = "next" /\ ~ValidMask(last.fam, last.m)) =>
           ~last.ok /\ engine = last.before
    /\ \A i \in 1..Len(sfs) :
           ~ValidMask(sfs[i].fam, sfs[i].prefixLength) => sfs[i].pc # "panicked"

(***************************************************************************)
(* C8: once the caller has closed the done channel, the producer of that   *)
(* call eventually terminates: it does not stay blocked on the candidate   *)
(* channel.                                                                *)
(***************************************************************************)
Cancelled(i) == i <= Len(sfs) /\ sfs[i].done
Exited(i) == i <= Len(sfs) /\ sfs[i].pc = "exited"

C8_CancelledProducerExits ==
    \A i \in 1..MaxCalls : [](Cancelled(i) => <>(Exited(i) \/ crashed))

(***************************************************************************)
(* C9: the candidate sequence of every call is finite: every call that     *)
(* has started returns (a prefix, or NoSuitablePrefix when its candidates  *)
(* all overlap) instead of running forever.                                *)
(***************************************************************************)
C9_CallReturns == [](call.active => <>(~call.active \/ crashed))

(***************************************************************************)
(* C10: for a pool P of length p and a target m >= p the enumerator emits  *)
(* exactly the 2^(m-p) subnets of P of length m, each once, in ascending   *)
(* address order from P's network address.                                 *)
(***************************************************************************)
IsPrefixOf(s, t) == Len(s) <= Len(t) /\ \A k \in 1..Len(s) : s[k] = t[k]

C10_EmitsSubnetSeq ==
    \A i \in 1..Len(sfs) :
        LET sf == sfs[i]
            expected == SubnetSeq(sf.n, sf.prefixLength)
        IN (/\ IsValid(sf.n)
            /\ sf.n.bits <= sf.prefixLength
            /\ ValidMask(sf.fam, sf.prefixLength)
            /\ Len(expected) < MaxEmit) =>
               /\ IsPrefixOf(sf.sent, expected)
               /\ sf.pc \in {"walk", "close", "exited"} => sf.sent = expected

\* the pools of one family in the order they were added
PoolOrder(order, fam) ==
    SelectSeq(order, LAMBDA q : Len(q.addr) = (IF fam = 4 THEN 4 ELSE 16))

\* pool P holds a subnet of length m that no allocation overlaps
HasFree(P, m, allocs) ==
    \E S \in SubnetsOf(P, m) : ~\E A \in allocs : Overlap(A, S)

(***************************************************************************)
(* C11: candidates are emitted pool by pool in the order the pools were    *)
(* added: when several pools of the family hold a free subnet of the       *)
(* requested length, next_available returns a subnet of the one added      *)
(* first.                                                                  *)
(***************************************************************************)
C11_InsertionOrder ==
    (Succeeded /\ ValidMask(last.fam, last.m) /\ AllValid(AllocBefore(last))) =>
        LET ord == PoolOrder(last.order, last.fam)
            free == {k \in 1..Len(ord) : HasFree(ord[k], last.m, AllocBefore(last))}
        IN Cardinality(free) >= 2 =>
              \E k \in free : /\ \A j \in free : k <= j
                              /\ last.prefix \in SubnetsOf(ord[k], last.m)

\* all bits beyond the mask length are zero
Canonical(P) ==
    IsValid(P) /\ \A k \in (P.bits + 1)..BitLen(P.addr) : Bit(P.addr, k) = 0

\* the pool index of prefix's family as an operation found it
PoolsBefore(l) == IF Is6(l.prefix) THEN l.before[3] ELSE l.before[1]

Asked == last.op = "PrefixInPools"

(***************************************************************************)
(* C12: prefix_in_pools(Q) is true iff the pool index of Q's family holds  *)
(* a pool that contains Q as a prefix (Q at least as long as the pool, and *)
(* Q's network address inside it).  Stated for canonical Q and pools.      *)
(***************************************************************************)
C12_InPoolsIffContained ==
    (Asked /\ Canonical(last.prefix) /\ \A P \in PoolsBefore(last) : Canonical(P)) =>
        (last.result <=> \E P \in PoolsBefore(last) : ContainsPrefix(P, last.prefix))

(***************************************************************************)
(* C13: immediately after a successful next_available returning R, that is *)
(* before any pool or allocation is added or removed, prefix_in_pools(R)   *)
(* is true.                                                                *)
(***************************************************************************)
C13_ReturnedIsInPools ==
    (Asked /\ last.prefix \in Range(returned)) => last.result

\* PrefixInPools was asked about the prefix the latest call returned
C13_Witness ==
    /\ Asked
    /\ Len(returned) >= 1
    /\ last.prefix = returned[Len(returned)]
    /\ IsValid(last.prefix)
    /\ last.result

\* the allocation index of prefix's family as an operation found it
AllocsBefore(l) == IF Is6(l.prefix) THEN l.before[4] ELSE l.before[2]

Stored(tree, prefix) == \E q \in tree : Key(q) = Key(prefix)

(***************************************************************************)
(* C14: adding a pool that is already stored leaves every index as it was  *)
(* (adding it twice is adding it once); removing an allocation whose key   *)
(* is not stored leaves every index as it was (removing it twice, or       *)
(* removing one that was never stored, is removing it once).               *)
(***************************************************************************)
C14_Idempotent ==
    /\ last.op = "AddPool" =>
          /\ last.prefix \in PoolsNow(IF Is6(last.prefix) THEN 6 ELSE 4)
          /\ last.prefix \in PoolsBefore(last) => engine = last.before
    /\ last.op = "DeleteAllocatedPrefix" =>
          /\ ~Stored(AllocNow(IF Is6(last.prefix) THEN 6 ELSE 4), last.prefix)
          /\ ~Stored(AllocsBefore(last), last.prefix) => engine = last.before

\* a pool was added while it was already stored
C14_Witness ==
    /\ last.op = "AddPool"
    /\ last.prefix \in PoolsBefore(last)
    /\ nOps >= 2

(***************************************************************************)
(* C15: after remove_allocation(P) for a prefix P that a call returned, P  *)
(* is available again: the next call for P's length and family returns a   *)
(* prefix, and it returns P unless a candidate before P in the enumeration *)
(* is free (the call then never gets to P).                                *)
(***************************************************************************)
C15_ReleasedIsReturnedAgain ==
    (/\ last.op = "next"
     /\ IsValid(last.released)
     /\ Len(last.released.addr) = (IF last.fam = 4 THEN 4 ELSE 16)
     /\ last.m = last.released.bits) =>
        /\ last.ok
        /\ last.released \in Range(last.tried) => last.prefix = last.released

\* the call after the release returned the released prefix
C15_Witness ==
    /\ Succeeded
    /\ IsValid(last.released)
    /\ last.m = last.released.bits
    /\ last.prefix = last.released

FamiliesApart ==
    /\ \A P \in IPv4Pools \cup AllocatedIPv4Prefixes : Is4(P)
    /\ \A P \in IPv6Pools \cup AllocatedIPv6Prefixes : Is6(P)

\* a returned prefix has the family of the request and lies in a pool of
\* that family's index
ReturnedInFamily ==
    Succeeded =>
        /\ Len(last.prefix.addr) = (IF last.fam = 4 THEN 4 ELSE 16)
        /\ last.from \in (IF last.fam = 4 THEN IPv4Pools ELSE IPv6Pools)
        /\ Len(last.from.addr) = Len(last.prefix.addr)
        /\ Contains(last.from, last.prefix.addr)

\* the host starts the IPv6 allocator for ip_family "ipv6" and the IPv4
\* allocator otherwise
HostPicksFamily ==
    \A ipFamily \in FamilyInputs : \A cidrMaskLength \in MaskInputs(ipFamily) :
        calculateSubnet(ipFamily, cidrMaskLength) =>
            /\ call'.active
            /\ call'.fam = (IF ipFamily = "ipv6" THEN 6 ELSE 4)
            /\ sfs'[Len(sfs')].fam = call'.fam

(***************************************************************************)
(* C17: with pools and allocations of both families in one engine, an      *)
(* IPv4 request returns an IPv4 prefix taken from an IPv4 pool and an IPv6 *)
(* request an IPv6 prefix taken from an IPv6 pool; the host starts the     *)
(* IPv6 allocator only for ip_family "ipv6", the IPv4 allocator otherwise. *)
(***************************************************************************)
C17_FamiliesNeverMix ==
    /\ [](FamiliesApart /\ ReturnedInFamily)
    /\ [][HostPicksFamily]_vars

\* an IPv6 request returned while the engine held pools and allocations of
\* both families
C17_Witness ==
    /\ Succeeded
    /\ last.fam = 6
    /\ IPv4Pools # {} /\ IPv6Pools # {}
    /\ AllocatedIPv4Prefixes # {} /\ AllocatedIPv6Prefixes # {}

(***************************************************************************)
(* C18: every prefix stored in a pool or allocation index is canonical     *)
(* (add_pool and add_allocation mask the host bits, so all bits beyond the *)
(* mask length are zero whatever the supplied prefix had), and so is every *)
(* prefix next_available returns.                                          *)
(***************************************************************************)
C18_StoredCanonical ==
    /\ \A P \in IPv4Pools \cup IPv6Pools : Canonical(P)
    /\ \A P \in AllocatedIPv4Prefixes \cup AllocatedIPv6Prefixes : Canonical(P)
    /\ Succeeded => Canonical(last.prefix)

(***************************************************************************)
(* C19: every operation holds the one mutex for its whole duration, so     *)
(* calls behave as in some sequential order: two calls never return the    *)
(* same prefix, and an allocation made by a completed call is seen by      *)
(* every later call.  Stated for the calls made since the indexes were     *)
(* last edited.                                                            *)
(***************************************************************************)
C19_SerializedCallsDiffer ==
    /\ last.op = "next" =>
          \A k \in 1..Len(returned) :
              (k < Len(returned) \/ ~last.ok) =>
                  returned[k] \in (IF Is6(returned[k]) THEN last.before[4]
                                                       ELSE last.before[2])
    /\ \A i \in 1..Len(returned) : \A j \in 1..Len(returned) :
          i # j => returned[i] # returned[j]

\* the pool that DeletePool(l.prefix) removed, if one was stored under the key
Removed(l) == {P \in PoolsBefore(l) : Key(P) = Key(l.prefix)}

(***************************************************************************)
(* C20: remove_pool(P) changes only the pool index: every allocation       *)
(* stays stored, those inside P included, and prefix_in_pools of an        *)
(* allocation that lay inside P is false afterwards when no remaining pool *)
(* contains it.                                                            *)
(***************************************************************************)
C20_RemovePoolStrands ==
    last.op = "DeletePool" =>
        /\ AllocatedIPv4Prefixes = last.before[2]
        /\ AllocatedIPv6Prefixes = last.before[4]
        /\ PoolsNow(IF Is6(last.prefix) THEN 6 ELSE 4)
              = PoolsBefore(last) \ Removed(last)
        /\ PoolsNow(IF Is6(last.prefix) THEN 4 ELSE 6)
              = (IF Is6(last.prefix) THEN last.before[1] ELSE last.before[3])
        /\ \A A \in AllocNow(IF Is6(last.prefix) THEN 6 ELSE 4) :
              (/\ Canonical(A)
               /\ \E P \in Removed(last) : ContainsPrefix(P, A)
               /\ \A P \in PoolsNow(IF Is6(A) THEN 6 ELSE 4) :
                     Canonical(P) /\ ~ContainsPrefix(P, A)) =>
                  ~PrefixInPools(A)

(***************************************************************************)
(* C21: add_allocation(P) always records P and never fails: whatever the   *)
(* indexes hold, P is stored afterwards, replacing only an entry under its *)
(* own key, also when P lies outside every pool or overlaps an allocation  *)
(* that is already stored; and the call is possible in every state in      *)
(* which an operation can be made.                                         *)
(***************************************************************************)
C21_AddAllocationAlwaysRecords ==
    /\ last.op = "AddAllocatedPrefix" =>
          /\ AllocNow(IF Is6(last.prefix) THEN 6 ELSE 4)
                = {A \in AllocsBefore(last) : Key(A) # Key(last.prefix)}
                     \cup {last.prefix}
          /\ AllocNow(IF Is6(last.prefix) THEN 4 ELSE 6)
                = (IF Is6(last.prefix) THEN last.before[2] ELSE last.before[4])
          /\ IPv4Pools = last.before[1]
          /\ IPv6Pools = last.before[3]
    /\ CanOperate => \A P \in RawClaimInputs : ENABLED AddAllocatedPrefix(P)

\* an allocation was added that lies outside every pool and overlaps an
\* allocation stored under another key
C21_Witness ==
    /\ last.op = "AddAllocatedPrefix"
    /\ \A P \in PoolsBefore(last) : ~ContainsPrefix(P, last.prefix)
    /\ \E A \in AllocsBefore(last) :
          /\ Key(A) # Key(last.prefix)
          /\ Overlap(A, last.prefix)
          /\ A \in AllocNow(4)
    /\ last.prefix \in AllocNow(4)

(***************************************************************************)
(* C22: in every reachable state no two prefixes stored in the allocation  *)
(* index of one family overlap.                                            *)
(***************************************************************************)
C22_AllocationsDisjoint ==
    \A fam \in {4, 6} :
        \A A \in AllocNow(fam) : \A B \in AllocNow(fam) :
            A # B => ~Overlap(A, B)

\* the step is an AddAllocatedPrefix of a prefix that overlaps an allocation
\* stored under another key
AddsOverlapping ==
    /\ nOps' # nOps
    /\ last'.op = "AddAllocatedPrefix"
    /\ \E A \in AllocsBefore(last') :
          Key(A) # Key(last'.prefix) /\ Overlap(A, last'.prefix)

\* C22 as the engine keeps it: no step other than an add_allocation of a
\* prefix overlapping a stored allocation makes two stored allocations of a
\* family overlap; in particular next_available never does.
C22_DisjointUnlessAddedOverlapping ==
    [][(C22_AllocationsDisjoint /\ ~AddsOverlapping) => C22_AllocationsDisjoint']_vars

\* a call returned a subnet next to an allocation that add_allocation stored,
\* and the index is free of overlaps
C22_Witness ==
    /\ Succeeded
    /\ IsValid(last.prefix)
    /\ AllocBefore(last) # {}
    /\ AllocNow(last.fam) = AllocBefore(last) \cup {last.prefix}
    /\ last.prefix \notin AllocBefore(last)
    /\ C22_AllocationsDisjoint

\* the mode a prefix's family stands for
ModeOf(prefix) == IF Is4(prefix) THEN "ModeV4" ELSE "ModeV6"

(***************************************************************************)
(* C23: in the single-mode engine, once a first prefix has fixed the mode, *)
(* add_pool or add_allocation of a prefix of the other family returns an   *)
(* error and leaves the pool index, the allocation index and the mode      *)
(* unchanged; New returns an error for an empty pool list and for any pool *)
(* or claimed prefix whose family differs from that of the first pool.     *)
(***************************************************************************)
C23_FamilyMismatchIsError ==
    /\ (/\ last.op \in {"ModeAddPool", "ModeAddAllocatedPrefix"}
        /\ last.before.Mode # "ModeUnknown"
        /\ ModeOf(last.prefix) # last.before.Mode) =>
           last.err /\ calc = last.before
    /\ last.op = "New" =>
          /\ last.supernets = <<>> => last.result.err
          /\ (\E k \in 1..Len(last.supernets) :
                 ModeOf(last.supernets[k]) # ModeOf(last.supernets[1])) =>
                last.result.err
          /\ (/\ last.supernets # <<>>
              /\ \E k \in 1..Len(last.subnets) :
                    ModeOf(last.subnets[k]) # ModeOf(last.supernets[1])) =>
                last.result.err
          /\ last.result.err => last.result = NewFailed

\* an IPv6 allocation was refused by a calculator whose first pool was IPv4
C23_Witness ==
    /\ last.op = "ModeAddAllocatedPrefix"
    /\ Is6(last.prefix)
    /\ last.before.Mode = "ModeV4"
    /\ last.before.Pools # {}
    /\ last.err
    /\ calc = last.before

(***************************************************************************)
(* C24: when the stored cidr_block of a single-subnet resource cannot be   *)
(* parsed, Read and Delete report the parse error and stop: the resource   *)
(* stays in the state and the engine is left as it was.                    *)
(***************************************************************************)
C24_ParseErrorStops ==
    (/\ last.op \in {"Read", "Delete"}
     /\ ParsePrefix(last.data.CIDRBlock).err) =>
        /\ HasError(last.diagnostics)
        /\ state = last.data
        /\ engine = last.before

(***************************************************************************)
(* C29: Read of a single-subnet resource removes the resource from the     *)
(* state iff prefix_in_pools of its stored CIDR is false; when a pool      *)
(* contains the stored CIDR the state is unchanged; the engine is never    *)
(* changed by Read.                                                        *)
(***************************************************************************)
C29_ReadDropsIffNotInPools ==
    last.op = "Read" =>
        /\ engine = last.before
        /\ state = NoResource <=> ~PrefixInPools(ParsePrefix(last.data.CIDRBlock).prefix)
        /\ state # NoResource => state = last.data
        /\ (\E P \in IPv4Pools \cup IPv6Pools :
               ContainsPrefix(P, ParsePrefix(last.data.CIDRBlock).prefix)) =>
              state = last.data

\* Read dropped a resource whose CIDR parses and lies in no pool while other
\* pools are stored
C29_Witness ==
    /\ last.op = "Read"
    /\ ~ParsePrefix(last.data.CIDRBlock).err
    /\ IPv4Pools # {}
    /\ Is4(last.p)
    /\ state = NoResource


(***************************************************************************)
(* C25: Create with cidr_count n makes n successive next_available calls   *)
(* of the same mask length on the loaded calculator and stores the texts   *)
(* of exactly those n results in the order of the calls, the id being the  *)
(* texts joined by commas; when one of the calls does not give a subnet,   *)
(* Create reports an error and saves no state.                             *)
(***************************************************************************)
\* the calculator after k successful calls on c
RECURSIVE After(_, _, _)
After(c, numBits, k) ==
    IF k = 0 THEN c ELSE nextAvailableSubnet(After(c, numBits, k - 1), numBits).c

C25_CreateStoresCallsInOrder ==
    (/\ last.op = "Create"
     /\ ~HasError(LoadCIDRBlocks(last.data, NewModeCalculator).diagnostics)) =>
        LET n == last.data.CIDRCount
            m == last.data.CIDRMaskLength
            c == LoadCIDRBlocks(last.data, NewModeCalculator).c
            Call(k) == nextAvailableSubnet(After(c, m, k - 1), m)
            cidrs == [k \in 1..n |-> PrefixString(Call(k).prefix)]
        IN IF \A k \in 1..n : Call(k).ok
           THEN /\ ~HasError(last.diagnostics)
                /\ state.exists
                /\ state.CIDRBlocks = cidrs
                /\ state.ID = Join(cidrs, ",")
           ELSE /\ HasError(last.diagnostics)
                /\ ~crashed
                /\ state = NoResource

(***************************************************************************)
(* C26: ImportState of an ID with an element that is no CIDR, or with      *)
(* CIDRs of different mask lengths, ends with an error diagnostic and      *)
(* without aborting the process, and imports nothing; for a well-formed ID *)
(* it sets cidr_blocks to the elements in order, cidr_count to their       *)
(* number and cidr_mask_length to their common length.                     *)
(***************************************************************************)
C26_ImportRejectsMalformed ==
    (last.op = "Import") =>
        LET elems == Split(last.id, ",")
            malformed == \E k \in 1..Len(elems) : ParsePrefix(elems[k]).err
            lengths == {ParsePrefix(elems[k]).prefix.bits : k \in 1..Len(elems)}
        IN IF malformed \/ Cardinality(lengths) > 1
           THEN /\ HasError(last.diagnostics)
                /\ ~crashed
                /\ state = NoResource
           ELSE /\ state.exists
                /\ state.CIDRBlocks = elems
                /\ state.CIDRCount = Len(elems)
                /\ lengths = {state.CIDRMaskLength}

(***************************************************************************)
(* C27: an Update that changes the pool or the existing blocks leaves the  *)
(* calculated CIDR blocks and the id exactly as they were in the state,    *)
(* also when the new existing list names a block of the resource itself    *)
(* or pools were added.                                                    *)
(***************************************************************************)
C27_UpdateKeepsBlocks ==
    (last.op = "Update") =>
        /\ state.CIDRBlocks = last.data.CIDRBlocks
        /\ state.ID = last.data.ID

\* an Update went through that added a pool and whose existing list names
\* a block of the resource
C27_Witness ==
    /\ last.op = "Update"
    /\ ~HasError(last.diagnostics)
    /\ state.CIDRBlocks # <<>>
    /\ Range(last.data.PoolCIDRBlocks) # Range(state.PoolCIDRBlocks)
    /\ Range(last.data.PoolCIDRBlocks) \subseteq Range(state.PoolCIDRBlocks)
    /\ Range(state.ExistingCIDRBlocks) \cap Range(state.CIDRBlocks) # {}
    /\ Range(last.data.ExistingCIDRBlocks) \cap Range(state.CIDRBlocks) = {}

(***************************************************************************)
(* C28: the plan modifier of the pool set requires a replacement exactly   *)
(* when some CIDR block of the state lies within no pool of the new        *)
(* configuration.                                                          *)
(***************************************************************************)
\* the block of this text lies within a pool of the configuration
FallsWithin(cidr, config) ==
    \E k \in 1..Len(config.PoolCIDRBlocks) :
        /\ ~ParsePrefix(config.PoolCIDRBlocks[k]).err
        /\ ContainsPrefix(ParsePrefix(config.PoolCIDRBlocks[k]).prefix,
                          ParsePrefix(cidr).prefix)

C28_ReplaceIffOutsidePools ==
    (/\ last.op = "PlanModify"
     /\ ~HasError(last.diagnostics)) =>
        (last.RequiresReplace <=>
            \E k \in 1..Len(last.data.CIDRBlocks) :
                ~FallsWithin(last.data.CIDRBlocks[k], last.config))

(***************************************************************************)
(* C30: an Update that raises cidr_count from s to p keeps the s blocks of *)
(* the state, in order, as the first s blocks and appends p - s blocks,    *)
(* each of them the lowest subnet of the mask length that is free when it  *)
(* is allocated: free of the existing blocks, of the blocks of the state   *)
(* and of the blocks appended before it.                                   *)
(***************************************************************************)
C30_IncreaseAppendsLowestFree ==
    (/\ last.op = "Update"
     /\ ~crashed
     /\ ~HasError(last.diagnostics)
     /\ last.plan.CIDRCount > last.data.CIDRCount) =>
        LET s == Len(last.data.CIDRBlocks)
            p == last.plan.CIDRCount
            Held(k) == loadAllocated(SubSeq(state.CIDRBlocks, 1, k - 1),
                                     [c |-> last.loaded, diagnostics |-> <<>>]).c
            Lowest(k) == nextAvailableSubnet(Held(k), last.plan.CIDRMaskLength)
        IN /\ Len(state.CIDRBlocks) = p
           /\ SubSeq(state.CIDRBlocks, 1, s) = last.data.CIDRBlocks
           /\ \A k \in (s + 1)..p :
                  /\ Lowest(k).ok
                  /\ state.CIDRBlocks[k] = PrefixString(Lowest(k).prefix)


(***************************************************************************)
(* C31: an Update that lowers cidr_count from s to p keeps exactly the     *)
(* first p blocks of the state, in order, and calls DeleteAllocatedPrefix  *)
(* for each of the s - p blocks dropped, from the end of the list.         *)
(***************************************************************************)
C31_DecreaseKeepsFirst ==
    (/\ last.op = "Update"
     /\ ~crashed
     /\ ~HasError(last.diagnostics)
     /\ last.plan.CIDRCount < last.data.CIDRCount) =>
        LET s == Len(last.data.CIDRBlocks)
            p == last.plan.CIDRCount
        IN /\ state.CIDRBlocks = SubSeq(last.data.CIDRBlocks, 1, p)
           /\ state.CIDRCount = p
           /\ last.deleted =
                  [k \in 1..(s - p) |->
                      ParsePrefix(last.data.CIDRBlocks[s + 1 - k]).prefix]

\* an Update lowered the count and kept some block while dropping another
C31_Witness ==
    /\ last.op = "Update"
    /\ ~HasError(last.diagnostics)
    /\ last.plan.CIDRCount < last.data.CIDRCount
    /\ last.plan.CIDRCount >= 1
    /\ Len(last.deleted) >= 1
    /\ state.CIDRBlocks # last.data.CIDRBlocks


(***************************************************************************)
(* C32: for every address a of width W and every bit position k in 0..W    *)
(* the increment returns a + 2^(W-k) when the sum is below 2^W, carries    *)
(* running toward index 0, and the all-zeros address when the sum          *)
(* overflows; it never aborts.                                             *)
(***************************************************************************)
\* the address as W bits, most significant first
Bits(a) ==
    [i \in 1..(8 * Len(a)) |->
        (a[((i - 1) \div 8) + 1] \div 2^(7 - ((i - 1) % 8))) % 2]

\* b + 2^(W-k) in binary: the lowest-order zero at or above position k is
\* set and the ones below it, down to k, are cleared; with no such zero the
\* sum is 2^W or more
PlusBit(b, k) ==
    LET zeros == {j \in 1..k : b[j] = 0}
        top == CHOOSE j \in zeros : \A i \in zeros : i <= j
    IN IF zeros = {} THEN [i \in 1..Len(b) |-> 0]
       ELSE [i \in 1..Len(b) |->
                IF i = top THEN 1 ELSE IF i > top /\ i <= k THEN 0 ELSE b[i]]

C32_IncrementAddsBit ==
    (last.op \in {"increment4", "increment16"}) =>
        /\ ~last.result.panic
        /\ Len(last.result.a) = Len(last.a)
        /\ Bits(last.result.a) = PlusBit(Bits(last.a), last.bit)


C34_CallAddsOnlyReturned ==
    /\ Succeeded =>
          /\ IPv4Pools = last.before[1]
          /\ IPv6Pools = last.before[3]
          /\ IF last.fam = 4
             THEN /\ AllocatedIPv4Prefixes = last.before[2] \cup {last.prefix}
                  /\ last.prefix \notin last.before[2]
                  /\ AllocatedIPv6Prefixes = last.before[4]
             ELSE /\ AllocatedIPv6Prefixes = last.before[4] \cup {last.prefix}
                  /\ last.prefix \notin last.before[4]
                  /\ AllocatedIPv4Prefixes = last.before[2]
    /\ (last.op = "PrefixInPools") => engine = last.before


C36_ModeSetOnce ==
    (last.op \in {"ModeAddPool", "ModeDeletePool", "ModeAddAllocatedPrefix",
                  "ModeDeleteAllocatedPrefix", "ModeNextAvailableSubnet"}) =>
        /\ last.before.Mode # "ModeUnknown" => calc.Mode = last.before.Mode
        /\ last.before.Mode = "ModeUnknown" =>
              calc.Mode = IF last.op \in {"ModeAddPool", "ModeAddAllocatedPrefix"}
                          THEN ModeOf(last.prefix)
                          ELSE "ModeUnknown"
        /\ (last.op = "ModeNextAvailableSubnet" /\ last.before.Mode = "ModeUnknown") =>
              last.err /\ ~crashed


(***************************************************************************)
(* C37: after an Update that raised cidr_count the blocks of the resource  *)
(* are pairwise non-overlapping: no appended block equals or overlaps a    *)
(* block the resource held before, or another appended block.              *)
(***************************************************************************)
C37_IncreasedBlocksDisjoint ==
    (/\ last.op = "Update"
     /\ ~crashed
     /\ ~HasError(last.diagnostics)
     /\ last.plan.CIDRCount > last.data.CIDRCount) =>
        \A i \in 1..Len(state.CIDRBlocks) : \A j \in 1..Len(state.CIDRBlocks) :
            i < j => ~Overlap(ParsePrefix(state.CIDRBlocks[i]).prefix,
                              ParsePrefix(state.CIDRBlocks[j]).prefix)


(***************************************************************************)
(* C38: the index key of an IPv4 prefix is its four address bytes          *)
(* left-padded with zeros to sixteen bytes: every IPv4 key begins with     *)
(* twelve zero bytes, and the walk of an index visits the IPv4 entries in  *)
(* the byte order of their addresses.                                      *)
(***************************************************************************)
\* a comes before b in byte-lexicographic order
Below(a, b) ==
    \E k \in 1..Len(a) :
        /\ a[k] < b[k]
        /\ \A j \in 1..(k - 1) : a[j] = b[j]

C38_V4KeyZeroPadded ==
    /\ \A P \in IPv4Pools \cup AllocatedIPv4Prefixes :
          Key(P) = Zeros(12) \o P.addr
    /\ \A tree \in {IPv4Pools, AllocatedIPv4Prefixes} :
          \A i \in 1..Len(Walk(tree)) : \A j \in 1..Len(Walk(tree)) :
              i < j => Below(Walk(tree)[i].addr, Walk(tree)[j].addr)

\* The key of an IPv4 prefix is the IPv4-mapped IPv6 form of its address:
\* ten zero bytes, 0xff 0xff, then the four address bytes; the walk of an
\* index visits the IPv4 entries in the byte order of their addresses.
C38_V4KeyMapped ==
    /\ \A P \in IPv4Pools \cup AllocatedIPv4Prefixes :
          Key(P) = Zeros(10) \o <<255, 255>> \o P.addr
    /\ \A tree \in {IPv4Pools, AllocatedIPv4Prefixes} :
          \A i \in 1..Len(Walk(tree)) : \A j \in 1..Len(Walk(tree)) :
              i < j => /\ Below(Walk(tree)[i].addr, Walk(tree)[j].addr)
                       /\ LexLess(Key(Walk(tree)[i]), Key(Walk(tree)[j]))

\* an IPv4 index holds entries at two addresses
C38_Witness ==
    /\ last.op \in {"AddPool", "AddAllocatedPrefix"}
    /\ \E P \in IPv4Pools \cup AllocatedIPv4Prefixes :
          \E Q \in IPv4Pools \cup AllocatedIPv4Prefixes : P.addr # Q.addr
    /\ Cardinality(IPv4Pools) >= 2 \/ Cardinality(AllocatedIPv4Prefixes) >= 2

==========================================================================
